---- MODULE Spec2Model ----
(***************************************************************************)
(* Verification model of the ECG classification pipeline:                  *)
(*   - ECGDataset statistics and their on-disk cache                        *)
(*     (data_loader/ecg_data_set.py),                                       *)
(*   - the duplicate-trial callback of the tuning study (train.py),         *)
(*   - the epoch loop of the Trainer (trainer/trainer.py),                  *)
(*   - a forward pass of BasicBlock1dWithNorm (layers/Old),                 *)
(*   - prepare_device and inf_loop (utils/util.py),                         *)
(*   - train_model and the command-line entry point (train.py),             *)
(*   - the cross-validation summarizer (summarize_cross_valid.py),          *)
(*   - workers that compute one cached statistic at the same time.          *)
(* Each component has its own specification; the variables of the other     *)
(* components keep their initial values.                                    *)
(***************************************************************************)
EXTENDS Integers, Sequences, FiniteSets

VARIABLES
    \* ---- ECGDataset and the files under data_loader/log ----
    input_dir,      \* self._input_dir
    listdir,        \* os.listdir(input_dir): file names, in the order the OS gives
    records,        \* self.records: the record file names, sorted
    pickles,        \* the pickled meta of each record file on disk
    class_labels,   \* self.class_labels
    files,          \* data_loader/log: file name -> content
    origin,         \* history: cache file name -> what it was computed over
    env,            \* the inputs callers draw from in this run
    pc,             \* "idle" | "returned"
    call,           \* arguments of the call that has just returned
    out,            \* its outcome
    \* ---- the tuning study and MyTuneCallback ----
    already_seen,   \* MyTuneCallback.already_seen
    trial_config,   \* trial.config of each trial of the study
    trial_status,   \* "PENDING" | "RUNNING" | "TERMINATED" | "ERROR"
    num_failures,   \* failures of each trial so far
    stop_requests,  \* stop commands the tuning server has not served yet
    starts,         \* history: the on_trial_start events
    stop_cmds,      \* history: the stop commands issued
    \* ---- the Trainer ----
    tr_cfg,         \* what the Trainer was constructed with
    tr_pc,          \* where the run is
    epoch,          \* the epoch of _train_epoch(epoch)
    batch_idx,      \* batch_idx of the training loop
    valid_idx,      \* batch_idx of the validation loop
    loader_pos,     \* position of the inf_loop generator in the loader
    lr_steps,       \* lr_scheduler.step() calls so far
    trace,          \* history: the events of the current epoch
    train_metrics,  \* self.train_metrics: name -> the updates since its reset
    valid_metrics,  \* self.valid_metrics: likewise
    log,            \* log of _train_epoch
    ops,            \* history: the operations of the current epoch
    steps,          \* history: the steps set for the training batches of the run
    \* ---- a forward pass of BasicBlock1dWithNorm ----
    blk,            \* the arguments the block was constructed with
    blk_pc,         \* where the forward pass is
    blk_x,          \* x: the time length (shape[2]) of the input
    blk_out,        \* out: its time length and the operations that made it
    blk_residual,   \* residual: likewise
    \* ---- a call of prepare_device ----
    n_gpu,          \* torch.cuda.device_count()
    dev_arg,        \* the argument n_gpu_use as passed
    n_gpu_use,      \* the local n_gpu_use
    warnings,       \* the warnings printed
    dev_pc,         \* where the call is
    dev_ret,        \* (device, list_ids) as returned
    \* ---- a call of train_model ----
    tm_args,        \* its arguments and the configuration, as far as they steer it
    tm_pc,          \* where the call is
    tm_events,      \* history: what it has constructed and written
    \* ---- a run of the command-line entry point ----
    ep_args,        \* the command line and the configuration file, as far as they steer it
    global_SEED,    \* global_config.SEED
    rng,            \* the seed each random number generator was given
    ep_pc,          \* where the run is
    ep_events,      \* history: what it has called
    \* ---- a run of summarize_cross_valid.py ----
    sum_cfg,        \* its flags and the result tables it reads
    df_results,     \* df_results: the rows, each with its index label
    sum_fold,       \* fold of the loop
    sum_pc,         \* where the script is
    \* ---- a generator made by inf_loop and its consumer ----
    loop_n,         \* the items the loader yields per pass
    loop_pos,       \* items the current pass over the loader has yielded
    loop_pc,        \* "suspended" | "requested" | "StopIteration"
    loop_items,     \* history: the items yielded, by their number in the loader
    \* ---- workers that call get_class_frequency at the same time ----
    workers,        \* the workers of the run
    w_pc,           \* where each worker is in its call
    w_line,         \* lines of the manifest each worker has written
    w_read,         \* the lines each worker has read from the manifest
    log_dir,        \* data_loader/log exists
    manifest,       \* the manifest of the key: None, or Some(its lines)
    cache           \* the cache file of the key: Absent, "partial" or "complete"

dsVars == <<input_dir, listdir, records, pickles, class_labels, files, origin, env, pc, call, out>>

tuneVars == <<already_seen, trial_config, trial_status, num_failures,
              stop_requests, starts, stop_cmds>>

trVars == <<tr_cfg, tr_pc, epoch, batch_idx, valid_idx, loader_pos, lr_steps, trace,
            train_metrics, valid_metrics, log, ops, steps>>

blkVars == <<blk, blk_pc, blk_x, blk_out, blk_residual>>

devVars == <<n_gpu, dev_arg, n_gpu_use, warnings, dev_pc, dev_ret>>

tmVars == <<tm_args, tm_pc, tm_events>>

epVars == <<ep_args, global_SEED, rng, ep_pc, ep_events>>

\* the components that are driven on their own, one specification each
sumVars == <<sum_cfg, df_results, sum_fold, sum_pc>>

loopVars == <<loop_n, loop_pos, loop_pc, loop_items>>

wkVars == <<workers, w_pc, w_line, w_read, log_dir, manifest, cache>>

lateVars == <<epVars, sumVars, loopVars, wkVars>>

vars == <<dsVars, tuneVars, trVars, blkVars, devVars, tmVars, lateVars>>

\* what the actions of one component leave alone
notDs == <<tuneVars, trVars, blkVars, devVars, tmVars, lateVars>>

notTune == <<dsVars, trVars, blkVars, devVars, tmVars, lateVars>>

notTr == <<dsVars, tuneVars, blkVars, devVars, tmVars, lateVars>>

notBlk == <<dsVars, tuneVars, trVars, devVars, tmVars, lateVars>>

notDev == <<dsVars, tuneVars, trVars, blkVars, tmVars, lateVars>>

notTm == <<dsVars, tuneVars, trVars, blkVars, devVars, lateVars>>

early == <<dsVars, tuneVars, trVars, blkVars, devVars, tmVars>>

notEp == <<early, sumVars, loopVars, wkVars>>

notSum == <<early, epVars, loopVars, wkVars>>

notLoop == <<early, epVars, sumVars, wkVars>>

notWk == <<early, epVars, sumVars, loopVars>>

\* ------------------------------------------------------------------------
\* Bounds of the model
\* ------------------------------------------------------------------------
\* longest idx_list of a call that may use the cache
MaxIdxLen == 2
\* longest idx_list of a cross-validation call
MaxCVLen == 5
\* on_trial_start events of a study
MaxStarts == 4
\* batches of a loader, and the largest len_epoch
MaxBatches == 3
\* epochs of a run
MaxEpochs == 2
\* longest idx_list of a run that also passes the empty idx_list
MaxEdgeLen == 1
\* files of an input directory
MaxFiles == 3
\* largest kernel size of a block
MaxKernel == 3
\* longest input of a block (time steps)
MaxTimeLen == 4
\* most GPUs of a machine, and most GPUs asked for
MaxGpus == 5
\* largest seed besides the default
MaxSeed == 2
\* largest value of a cell of the result tables the summarizer reads
MaxMetric == 1
\* items a consumer asks an inf_loop generator for
MaxRequests == 16
\* workers that ask for one statistic at the same time
MaxWorkers == 3

\* ------------------------------------------------------------------------
\* Helpers: sequences, fractions
\* ------------------------------------------------------------------------
Range(s) == {s[i] : i \in DOMAIN s}

CountIn(x, s) == Cardinality({i \in DOMAIN s : s[i] = x})

RECURSIVE GCD(_, _)
GCD(a, b) == IF b = 0 THEN a ELSE GCD(b, a % b)

\* a / b of two non-negative numbers, b > 0, as a fraction in lowest terms
Frac(a, b) == LET g == GCD(a, b) IN <<a \div g, b \div g>>

\* ------------------------------------------------------------------------
\* Record names and their order
\* ------------------------------------------------------------------------
\* every file name of the model, listed in the order Python's sorted() gives
AllNames == <<"A0001.pk", "A0002.pk", "A0002.pk.bak", "A0003.pk", "README.txt">>

\* a file name as its stem and its dot-separated extensions
NameParts(name) ==
    CASE name = "A0001.pk" -> <<"A0001", ".pk">>
      [] name = "A0002.pk" -> <<"A0002", ".pk">>
      [] name = "A0002.pk.bak" -> <<"A0002", ".pk", ".bak">>
      [] name = "A0003.pk" -> <<"A0003", ".pk">>
      [] name = "README.txt" -> <<"README", ".txt">>

NameRank(name) == CHOOSE i \in DOMAIN AllNames : AllNames[i] = name

RECURSIVE Insert(_, _)
Insert(x, s) ==
    IF s = <<>> THEN <<x>>
    ELSE IF NameRank(x) <= NameRank(Head(s)) THEN <<x>> \o s
    ELSE <<Head(s)>> \o Insert(x, Tail(s))

\* sorted(names)
RECURSIVE sorted(_)
sorted(s) == IF s = <<>> THEN <<>> ELSE Insert(Head(s), sorted(Tail(s)))

\* ------------------------------------------------------------------------
\* The project layout
\* ------------------------------------------------------------------------
NoMode == "None"

\* A path is the sequence of its segments, each split at its underscores.
\* str(get_project_root()), taken as one segment
ProjectRoot == <<"/project">>

\* input directories: of the training records, given relative to the project
\* root and given absolute; of test records; of two variants of another data set
TrainDir == << <<"data">>, <<"CinC", "CPSC">>, <<"train">> >>

AbsoluteTrainDir == <<ProjectRoot>> \o TrainDir

TestDir == << <<"data">>, <<"CinC", "CPSC">>, <<"test">> >>

SuperDiagDir == << <<"data">>, <<"PTB-XL">>, <<"superdiag", "train">> >>

SubDiagTestDir == <<ProjectRoot, <<"data">>, <<"PTB-XL">>, <<"subdiag", "test">> >>

\* word in path
PathContains(dir, word) == \E i \in DOMAIN dir : word \in Range(dir[i])

\* relative_path (lines 82-85, 168-171)
WholePath(dir) == dir

RelativePath(dir) == IF dir[1] = ProjectRoot THEN Tail(dir) ELSE dir

\* mode = "valid" when the test mode is used on a directory that is no test set
\* (lines 77-80, 163-166)
EffectiveModeUnchanged(mode) == mode

EffectiveMode(mode) ==
    IF mode = "test" /\ ~PathContains(input_dir, "test") THEN "valid" ELSE mode

\* dataset = relative_path.split("/")[1]; suffix as f-string (lines 86-88,
\* 172-174); joining with "_" is concatenating the lists of tokens
SuffixOf(dir) ==
    LET relative_path == RelativePath(dir)
        dataset == relative_path[2]
    IN  IF dataset = <<"CinC", "CPSC">> THEN dataset
        ELSE dataset \o <<relative_path[3][1]>>

Suffix == SuffixOf(input_dir)

\* File names under data_loader/log, split at their underscores.
\* pos_weights_ml_{mode}_{suffix}.p
PosWeightsFile(mode) == <<"pos", "weights", "ml", mode>> \o Suffix \o <<".p">>

\* class_freqs_{ml|sl}_{mode}_{suffix}.p
ClassFreqsFile(multi_label_training, mode) ==
    IF multi_label_training THEN <<"class", "freqs", "ml", mode>> \o Suffix \o <<".p">>
    ELSE <<"class", "freqs", "sl", mode>> \o Suffix \o <<".p">>

\* Record_names_{mode}_{suffix}.txt, suffix = "<kind>_<suffix>"
RecordNamesFile(mode, kind) ==
    <<"Record", "names", mode>> \o kind \o Suffix \o <<".txt">>

isfile(name) == name \in DOMAIN files

\* the file system after writing content to name (open(..., "w"))
WriteFile(fs, name, content) ==
    [n \in DOMAIN fs \cup {name} |-> IF n = name THEN content ELSE fs[n]]

\* ------------------------------------------------------------------------
\* ECGDataset
\* ------------------------------------------------------------------------
\* Class labels are the positions 0 .. n-1 of the one-hot vector (line 206
\* indexes the vector by the encoded label); vectors are 1-based here, so
\* label c is position c + 1.
LabelsOf(meta) == 0 .. (Len(meta.classes_one_hot) - 1)

\* the assertion of __getitem__ (line 58)
FirstLabelKnown(meta) == meta.classes_encoded[1] \in class_labels

AllLabelsKnown(meta) ==
    \A k \in DOMAIN meta.classes_encoded : meta.classes_encoded[k] \in class_labels

\* __getitem__(idx): ok is the assertion on unknown labels
getitem(idx) ==
    LET record_name == records[idx + 1]
        meta == pickles[record_name]
    IN  [ok |-> AllLabelsKnown(meta),
         first_class_encoded |-> meta.classes_encoded[1],
         classes_one_hot |-> meta.classes_one_hot,
         record_name |-> record_name]

\* the loops over idx_list: record names, and whether every __getitem__ passes
RecordNames(idx_list) ==
    [i \in DOMAIN idx_list |-> getitem(idx_list[i]).record_name]

AllItemsOk(idx_list) == \A i \in DOMAIN idx_list : getitem(idx_list[i]).ok

\* _save_record_names_to_txt: one line per name, in sorted order
SaveRecordNames(fs, mode, record_names, kind) ==
    WriteFile(fs, RecordNamesFile(mode, kind), sorted(record_names))

\* the comparison of _consistency_check_data_split (line 251)
SameRecordsBySet(current_records, records_for_mode) ==
    Range(current_records) = Range(records_for_mode)

SameRecords(current_records, records_for_mode) ==
    sorted(current_records) = sorted(records_for_mode)

\* _consistency_check_data_split: "ok" or the error it raises
ConsistencyCheck(idx_list, mode, kind) ==
    IF ~isfile(RecordNamesFile(mode, kind)) THEN "FileNotFoundError"
    ELSE IF ~AllItemsOk(idx_list) THEN "UnknownLabel"
    ELSE IF SameRecords(RecordNames(idx_list), files[RecordNamesFile(mode, kind)])
         THEN "ok"
    ELSE "DataSplitError"

\* pd.DataFrame(classes).sum(): the column sums of a list of vectors
RECURSIVE ColumnSum(_, _)
ColumnSum(classes, n) ==
    IF classes = <<>> THEN [k \in 1..n |-> 0]
    ELSE LET rest == ColumnSum(Tail(classes), n)
         IN  [k \in 1..n |-> Head(classes)[k] + rest[k]]

\* the columns of pd.DataFrame(classes): as many as the vectors have entries,
\* none when there is no vector
Columns(classes) == IF classes = <<>> THEN 0 ELSE Len(classes[1])

RECURSIVE SumSeq(_)
SumSeq(s) == IF s = <<>> THEN 0 ELSE Head(s) + SumSeq(Tail(s))

NumClasses == Cardinality(class_labels)

HasZero(class_freqs) == \E k \in DOMAIN class_freqs : class_freqs[k] = 0

\* lines 116-125: the data frame of get_ml_pos_weights
PosWeightsDfByRecords(idx_list) ==
    LET classes == [i \in DOMAIN idx_list |-> getitem(idx_list[i]).classes_one_hot]
        num_pos == ColumnSum(classes, Columns(classes))
        num_neg == [k \in DOMAIN num_pos |-> Cardinality(Range(idx_list)) - num_pos[k]]
    IN  [num_pos_samples |-> num_pos,
         num_neg_samples |-> num_neg,
         ratio_neg_to_pos |-> [k \in DOMAIN num_pos |->
             IF num_pos[k] = 0 THEN <<0, 0>> ELSE Frac(num_neg[k], num_pos[k])]]

PosWeightsDf(idx_list) ==
    LET classes == [i \in DOMAIN idx_list |-> getitem(idx_list[i]).classes_one_hot]
        num_pos == ColumnSum(classes, Columns(classes))
        num_neg == [k \in DOMAIN num_pos |-> Len(idx_list) - num_pos[k]]
    IN  [num_pos_samples |-> num_pos,
         num_neg_samples |-> num_neg,
         ratio_neg_to_pos |-> [k \in DOMAIN num_pos |->
             IF num_pos[k] = 0 THEN <<0, 0>> ELSE Frac(num_neg[k], num_pos[k])]]

\* lines 201-207: the vector a record contributes to the class frequencies
AllLabelsVector(item, multi_label_training) == item.classes_one_hot

ClassVector(item, multi_label_training) ==
    IF multi_label_training THEN item.classes_one_hot
    ELSE [k \in 1..NumClasses |->
             IF k = item.first_class_encoded + 1 THEN 1 ELSE 0]

\* lines 214-223: the data frame of get_class_frequency
ClassFreqsDf(idx_list, multi_label_training) ==
    LET classes == [i \in DOMAIN idx_list |->
                       ClassVector(getitem(idx_list[i]), multi_label_training)]
        class_freqs == ColumnSum(classes, Columns(classes))
        total == SumSeq(class_freqs)
    IN  [Class_freq |-> class_freqs,
         Inverse_class_freq |-> [k \in DOMAIN class_freqs |->
             IF class_freqs[k] = 0 THEN <<0, 0>> ELSE Frac(total, class_freqs[k])]]

\* the outcome of a call that raised
\* checked: the consistency check ran; recomputed: computed from scratch
Raised(err, checked, fs, orig) ==
    [err |-> err, ret |-> <<>>, checked |-> checked, recomputed |-> FALSE,
     files |-> fs, origin |-> orig]

\* whether a from-scratch computation persists what it computes
\* (lines 111, 129, 209, 225)
PersistsAlways(mode, cross_valid_active) == mode # NoMode

Persists(mode, cross_valid_active) == mode # NoMode /\ ~cross_valid_active

\* whether the cache is used (lines 93, 183)
UsesCacheWhenCrossValid(file_name, cross_valid_active) ==
    cross_valid_active /\ isfile(file_name)

UsesCache(file_name, cross_valid_active) ==
    ~cross_valid_active /\ isfile(file_name)

\* get_ml_pos_weights (lines 64-136), but for line 124 on a frame without rows
get_ml_pos_weights(idx_list, mode0, cross_valid_active) ==
    LET mode == EffectiveMode(mode0)
        file_name == PosWeightsFile(mode)
    IN  IF UsesCache(file_name, cross_valid_active)
        THEN LET check == ConsistencyCheck(idx_list, mode, <<"pos", "weights">>)
             IN  IF check # "ok" THEN Raised(check, TRUE, files, origin)
                 ELSE [err |-> "none", ret |-> files[file_name].ratio_neg_to_pos,
                       checked |-> TRUE, recomputed |-> FALSE,
                       files |-> files, origin |-> origin]
        ELSE IF ~AllItemsOk(idx_list) THEN Raised("UnknownLabel", FALSE, files, origin)
        ELSE LET record_names == RecordNames(idx_list)
                 fs1 == IF Persists(mode, cross_valid_active)
                        THEN SaveRecordNames(files, mode, record_names, <<"pos", "weights">>)
                        ELSE files
                 df == PosWeightsDf(idx_list)
             IN  IF HasZero(df.num_pos_samples)
                 THEN Raised("ZeroOccurrence", FALSE, fs1, origin)
                 ELSE [err |-> "none", ret |-> df.ratio_neg_to_pos,
                       checked |-> FALSE, recomputed |-> TRUE,
                       files |-> IF Persists(mode, cross_valid_active)
                                 THEN WriteFile(fs1, file_name, df) ELSE fs1,
                       origin |-> IF Persists(mode, cross_valid_active)
                                  THEN WriteFile(origin, file_name,
                                           [names |-> sorted(record_names), df |-> df])
                                  ELSE origin]

\* Line 124 on a frame without rows (an empty idx_list): df.apply either
\* yields a column of no values, and the call goes on, or a value that does
\* not fit the frame, and the assignment raises; which one depends on the
\* pandas in use.
MlPosWeightsOutcomes(idx_list, mode0, cross_valid_active) ==
    LET mode == EffectiveMode(mode0)
        res == get_ml_pos_weights(idx_list, mode0, cross_valid_active)
    IN  IF idx_list = <<>> /\ res.recomputed
        THEN {res,
              Raised("ValueError", FALSE,
                     IF Persists(mode, cross_valid_active)
                     THEN SaveRecordNames(files, mode, <<>>, <<"pos", "weights">>)
                     ELSE files,
                     origin)}
        ELSE {res}

\* line 232: the column a class-frequency call returns
ReturnedColumn(df, inverse) ==
    IF inverse THEN df.Inverse_class_freq ELSE df.Class_freq

\* get_class_frequency (lines 151-232)
get_class_frequency(idx_list, multi_label_training, mode0, inverse, cross_valid_active) ==
    LET mode == EffectiveMode(mode0)
        file_name == ClassFreqsFile(multi_label_training, mode)
    IN  IF UsesCache(file_name, cross_valid_active)
        THEN LET check == ConsistencyCheck(idx_list, mode, <<"class", "freqs">>)
             IN  IF check # "ok" THEN Raised(check, TRUE, files, origin)
                 ELSE [err |-> "none", ret |-> ReturnedColumn(files[file_name], inverse),
                       checked |-> TRUE, recomputed |-> FALSE,
                       files |-> files, origin |-> origin]
        ELSE IF ~AllItemsOk(idx_list) THEN Raised("UnknownLabel", FALSE, files, origin)
        ELSE LET record_names == RecordNames(idx_list)
                 fs1 == IF Persists(mode, cross_valid_active)
                        THEN SaveRecordNames(files, mode, record_names, <<"class", "freqs">>)
                        ELSE files
                 df == ClassFreqsDf(idx_list, multi_label_training)
             IN  IF HasZero(df.Class_freq)
                 THEN Raised("ZeroOccurrence", FALSE, fs1, origin)
                 ELSE [err |-> "none", ret |-> ReturnedColumn(df, inverse),
                       checked |-> FALSE, recomputed |-> TRUE,
                       files |-> IF Persists(mode, cross_valid_active)
                                 THEN WriteFile(fs1, file_name, df) ELSE fs1,
                       origin |-> IF Persists(mode, cross_valid_active)
                                  THEN WriteFile(origin, file_name,
                                           [names |-> sorted(record_names), df |-> df])
                                  ELSE origin]

\* get_inverse_class_frequency (lines 138-149)
get_inverse_class_frequency(idx_list, multi_label_training, mode, cross_valid_active) ==
    get_class_frequency(idx_list, multi_label_training, mode, TRUE, cross_valid_active)

\* ------------------------------------------------------------------------
\* Calls on the dataset
\* ------------------------------------------------------------------------
NoCall == [fn |-> "none"]
NoOut == [err |-> "none", ret |-> <<>>, checked |-> FALSE, recomputed |-> FALSE]

\* the idx_lists a caller may pass: indices of records, repeats allowed
IdxLists == UNION {[1..n -> 0 .. (Len(records) - 1)] : n \in env.minlen..env.maxlen}

Finish(c, res) ==
    /\ pc' = "returned"
    /\ call' = c
    /\ out' = [err |-> res.err, ret |-> res.ret, checked |-> res.checked,
               recomputed |-> res.recomputed]
    /\ files' = res.files
    /\ origin' = res.origin
    /\ UNCHANGED <<input_dir, listdir, records, pickles, class_labels, env>>
    /\ UNCHANGED notDs

GetMlPosWeights ==
    /\ pc = "idle"
    /\ \E idx_list \in IdxLists, mode \in env.modes, cv \in env.cvs :
         \E res \in MlPosWeightsOutcomes(idx_list, mode, cv) :
            Finish([fn |-> "get_ml_pos_weights", idx_list |-> idx_list,
                    multi_label_training |-> TRUE, mode |-> mode,
                    inverse |-> FALSE, cross_valid_active |-> cv],
                   res)

GetClassFrequency ==
    /\ pc = "idle"
    /\ \E idx_list \in IdxLists, ml \in BOOLEAN, mode \in env.modes, cv \in env.cvs :
         Finish([fn |-> "get_class_frequency", idx_list |-> idx_list,
                 multi_label_training |-> ml, mode |-> mode,
                 inverse |-> FALSE, cross_valid_active |-> cv],
                get_class_frequency(idx_list, ml, mode, FALSE, cv))

GetInverseClassFrequency ==
    /\ pc = "idle"
    /\ \E idx_list \in IdxLists, ml \in BOOLEAN, mode \in env.modes, cv \in env.cvs :
         Finish([fn |-> "get_inverse_class_frequency", idx_list |-> idx_list,
                 multi_label_training |-> ml, mode |-> mode,
                 inverse |-> TRUE, cross_valid_active |-> cv],
                get_inverse_class_frequency(idx_list, ml, mode, cv))

\* dataset[idx]: __getitem__ called by a data loader (lines 50-62)
GetItem ==
    /\ pc = "idle"
    /\ \E idx \in 0 .. (Len(records) - 1) :
         LET item == getitem(idx)
         IN  Finish([fn |-> "__getitem__", idx |-> idx],
                    IF item.ok
                    THEN [err |-> "none", ret |-> item, checked |-> FALSE,
                          recomputed |-> FALSE, files |-> files, origin |-> origin]
                    ELSE Raised("UnknownLabel", FALSE, files, origin))

\* the caller takes the result (or the exception) and goes on
Return ==
    /\ pc = "returned"
    /\ pc' = "idle"
    /\ call' = NoCall
    /\ out' = NoOut
    /\ UNCHANGED <<input_dir, listdir, records, pickles, class_labels, files, origin, env>>
    /\ UNCHANGED notDs

\* the name ends with the record suffix
EndsWithPk(file) == NameParts(file)[Len(NameParts(file))] = ".pk"

\* the test that keeps a file of the directory: ".pk" in file (line 37)
ContainsPk(file) == ".pk" \in Range(NameParts(file))

\* ECGDataset.__init__ over the files of a directory (lines 28-45)
Construct(dir) ==
    /\ listdir = [i \in 1..Len(dir) |-> dir[i].name]
    /\ records = SelectSeq(sorted(listdir), ContainsPk)
    /\ pickles = [name \in Range(records) |->
                    LET i == CHOOSE j \in 1..Len(dir) : dir[j].name = name
                    IN  [classes_encoded |-> dir[i].classes_encoded,
                         classes_one_hot |-> dir[i].classes_one_hot]]
    /\ class_labels = LabelsOf(pickles[records[1]])

\* the record files of a two-class directory
SmallDir ==
    << [name |-> "A0001.pk", classes_encoded |-> <<0, 1>>, classes_one_hot |-> <<1, 1>>],
       [name |-> "A0002.pk", classes_encoded |-> <<1>>,    classes_one_hot |-> <<0, 1>>] >>

\* a directory of one record
TinyDir ==
    << [name |-> "A0001.pk", classes_encoded |-> <<1, 0>>, classes_one_hot |-> <<1, 1>>] >>

\* the record files of a three-class directory
LargeDir ==
    << [name |-> "A0001.pk", classes_encoded |-> <<0>>,    classes_one_hot |-> <<1, 0, 0>>],
       [name |-> "A0002.pk", classes_encoded |-> <<1, 0>>, classes_one_hot |-> <<1, 1, 0>>],
       [name |-> "A0003.pk", classes_encoded |-> <<2, 1>>, classes_one_hot |-> <<0, 1, 1>>] >>

\* a three-class directory with a record that names a label (5) the first
\* record does not declare
MixedDir ==
    << [name |-> "A0001.pk", classes_encoded |-> <<0, 2>>, classes_one_hot |-> <<1, 0, 1>>],
       [name |-> "A0002.pk", classes_encoded |-> <<1, 5>>, classes_one_hot |-> <<0, 1, 0>>],
       [name |-> "A0003.pk", classes_encoded |-> <<1>>,    classes_one_hot |-> <<0, 1, 0>>] >>

\* the files a directory may hold: records, a backup copy of a record, a text
FilePool ==
    { [name |-> "A0001.pk", classes_encoded |-> <<0, 1>>, classes_one_hot |-> <<1, 1>>],
      [name |-> "A0002.pk", classes_encoded |-> <<1>>, classes_one_hot |-> <<0, 1>>],
      [name |-> "A0002.pk.bak", classes_encoded |-> <<1>>, classes_one_hot |-> <<0, 1>>],
      [name |-> "A0003.pk", classes_encoded |-> <<0>>, classes_one_hot |-> <<1, 0>>],
      [name |-> "README.txt", classes_encoded |-> <<>>, classes_one_hot |-> <<>>] }

\* the directories of at most MaxFiles files, listed in any order, that hold
\* a file __init__ keeps (records[0] exists)
Directories ==
    {dir \in UNION {[1..n -> FilePool] : n \in 1..MaxFiles} :
        /\ \A i, j \in DOMAIN dir : i # j => dir[i] # dir[j]
        /\ \E i \in DOMAIN dir : ContainsPk(dir[i].name)}

EmptyFiles == [n \in {} |-> <<>>]

DatasetInit(path, dir, e) ==
    /\ input_dir = path
    /\ Construct(dir)
    /\ files = EmptyFiles
    /\ origin = EmptyFiles
    /\ env = e
    /\ pc = "idle"
    /\ call = NoCall
    /\ out = NoOut

DatasetNext ==
    \/ GetMlPosWeights
    \/ GetClassFrequency
    \/ GetInverseClassFrequency
    \/ Return


\* ------------------------------------------------------------------------
\* The tuning study (train.py)
\* ------------------------------------------------------------------------
\* max_failures of tune.run
max_failures == 2

Trials == {"t1", "t2", "t3"}

\* a configuration is a dict: its (key, value) pairs in insertion order
TuneConfigs ==
    { << <<"down_sample", "conv">>, <<"pos_skip", "all">> >>,
      << <<"pos_skip", "all">>, <<"down_sample", "conv">> >>,
      << <<"down_sample", "conv">>, <<"pos_skip", "not_last">> >> }

\* str(config): "{'k1': 'v1', 'k2': 'v2'}" as its tokens
RECURSIVE StrItems(_)
StrItems(config) ==
    IF config = <<>> THEN <<>>
    ELSE <<config[1][1], ":", config[1][2]>>
         \o (IF Len(config) > 1 THEN <<",">> ELSE <<>>)
         \o StrItems(Tail(config))

StrFirstItem(config) == <<"{", config[1][1], ":", config[1][2], "}">>

Str(config) == <<"{">> \o StrItems(config) \o <<"}">>

\* MyTuneCallback.__init__ and setup: seen_configs = []
CallbackInit ==
    /\ already_seen = {}
    /\ stop_requests = {}
    /\ stop_cmds = <<>>

\* MyTuneCallback.on_trial_start, with self.manager.stop_trial(trial.trial_id)
on_trial_start(trial) ==
    /\ starts' = Append(starts, [trial |-> trial, config |-> trial_config[trial]])
    /\ IF Str(trial_config[trial]) \in already_seen
       THEN /\ stop_requests' = stop_requests \cup {trial}
            /\ stop_cmds' = Append(stop_cmds, [trial |-> trial, at |-> Len(starts) + 1])
            /\ UNCHANGED already_seen
       ELSE /\ already_seen' = already_seen \cup {Str(trial_config[trial])}
            /\ UNCHANGED <<stop_requests, stop_cmds>>

\* the tuning runtime starts (or, after a failure, restarts) a trial and
\* invokes the callbacks
TrialStart(trial) ==
    /\ trial_status[trial] = "PENDING"
    /\ Len(starts) < MaxStarts
    /\ trial_status' = [trial_status EXCEPT ![trial] = "RUNNING"]
    /\ on_trial_start(trial)
    /\ UNCHANGED <<trial_config, num_failures>>
    /\ UNCHANGED notTune

\* a running trial fails: it is retried while it has failed at most
\* max_failures times (raise_on_failed_trial = False: the study goes on)
TrialFail(trial) ==
    /\ trial_status[trial] = "RUNNING"
    /\ num_failures' = [num_failures EXCEPT ![trial] = @ + 1]
    /\ trial_status' = [trial_status EXCEPT ![trial] =
                           IF num_failures[trial] + 1 > max_failures
                           THEN "ERROR" ELSE "PENDING"]
    /\ UNCHANGED <<already_seen, trial_config, stop_requests, starts, stop_cmds>>
    /\ UNCHANGED notTune

\* a running trial ends by itself
TrialComplete(trial) ==
    /\ trial_status[trial] = "RUNNING"
    /\ trial_status' = [trial_status EXCEPT ![trial] = "TERMINATED"]
    /\ UNCHANGED <<already_seen, trial_config, num_failures, stop_requests,
                   starts, stop_cmds>>
    /\ UNCHANGED notTune

\* the tuning server (server_port = 4321) serves a stop command
ServeStop(trial) ==
    /\ trial \in stop_requests
    /\ stop_requests' = stop_requests \ {trial}
    /\ trial_status' = [trial_status EXCEPT ![trial] =
                           IF @ \in {"PENDING", "RUNNING"} THEN "TERMINATED" ELSE @]
    /\ UNCHANGED <<already_seen, trial_config, num_failures, starts, stop_cmds>>
    /\ UNCHANGED notTune

\* hyper_study: tune.run over the trials of the study
TuneInit(configs) ==
    /\ CallbackInit
    /\ trial_config \in [Trials -> configs]
    /\ trial_status = [t \in Trials |-> "PENDING"]
    /\ num_failures = [t \in Trials |-> 0]
    /\ starts = <<>>

TuneNext ==
    \E trial \in Trials :
        \/ TrialStart(trial)
        \/ TrialFail(trial)
        \/ TrialComplete(trial)
        \/ ServeStop(trial)

\* no study is running
NoStudy == TuneInit({<< <<"down_sample", "conv">>, <<"pos_skip", "all">> >>})

\* ------------------------------------------------------------------------
\* The Trainer (trainer/trainer.py)
\* ------------------------------------------------------------------------
\* An optional argument is a set: {} for None, {v} for the value v.
None == {}
Some(v) == {v}
TheValue(opt) == CHOOSE v \in opt : TRUE

\* Trainer.__init__ (lines 19-28)
IterationBased == tr_cfg.len_epoch # None

len_epoch ==
    IF tr_cfg.len_epoch = None THEN tr_cfg.n_batches ELSE TheValue(tr_cfg.len_epoch)

do_validation == tr_cfg.valid_data_loader # None

HasScheduler == tr_cfg.lr_scheduler

\* the step a training batch is logged under (line 55)
TrainStep(e, b) == (e - 1) * len_epoch + b

\* the loop over epochs of the base trainer: the next epoch begins
NextEpoch ==
    /\ tr_pc \in {"init", "epoch_done"}
    /\ epoch < tr_cfg.epochs
    /\ epoch' = epoch + 1
    /\ tr_pc' = "enter"
    /\ UNCHANGED <<tr_cfg, batch_idx, valid_idx, loader_pos, lr_steps, trace>>
    /\ UNCHANGED <<train_metrics, valid_metrics, log, ops, steps>>
    /\ UNCHANGED notTr

\* the run ends: all epochs done, or stopped early by the base trainer
StopTraining ==
    /\ tr_pc = "epoch_done"
    /\ tr_pc' = "finished"
    /\ UNCHANGED <<tr_cfg, epoch, batch_idx, valid_idx, loader_pos, lr_steps, trace>>
    /\ UNCHANGED <<train_metrics, valid_metrics, log, ops, steps>>
    /\ UNCHANGED notTr

\* MetricTracker (utils/tracker.py, not part of the sources at hand): reset
\* forgets every update, update adds one to the name's entry, result gives
\* every name with what its updates amount to
reset(tracker) == [k \in DOMAIN tracker |-> {}]

update(tracker, key, value) == [tracker EXCEPT ![key] = @ \cup {value}]

result(tracker) == tracker

\* lines 58-60: 'loss' and every metric function are updated with the batch
RECURSIVE UpdateAll(_, _, _)
UpdateAll(tracker, names, value) ==
    IF names = <<>> THEN tracker
    ELSE UpdateAll(update(tracker, Head(names), value), Tail(names), value)

TrackedNames == <<"loss">> \o tr_cfg.metric_ftns

\* _train_epoch up to the loop (lines 42-44)
EnterTrainEpoch ==
    /\ tr_pc = "enter"
    /\ tr_pc' = "train"
    /\ batch_idx' = 0
    /\ trace' = <<>>
    /\ ops' = <<>>
    /\ train_metrics' = reset(train_metrics)
    /\ UNCHANGED <<tr_cfg, epoch, valid_idx, loader_pos, lr_steps>>
    /\ UNCHANGED <<valid_metrics, log, steps>>
    /\ UNCHANGED notTr

\* what follows the validation phase, and the training loop (lines 74-82)
PhaseAfterValid == IF HasScheduler THEN "scheduler" ELSE "return"

PhaseAfterTrainSchedulerFirst ==
    IF HasScheduler THEN "scheduler" ELSE IF do_validation THEN "valid" ELSE "return"

PhaseAfterTrain == IF do_validation THEN "valid" ELSE PhaseAfterValid

\* the condition that ends the training loop early (line 72)
Break(b) == b = len_epoch

\* the operations of the training loop body, in the order of lines 50-60
TrainBatchOpsStepFirst ==
    <<"optimizer.step", "optimizer.zero_grad", "model", "criterion", "loss.backward",
      "set_step", "train_metrics.update">>

TrainBatchOps ==
    <<"optimizer.zero_grad", "model", "criterion", "loss.backward", "optimizer.step",
      "set_step", "train_metrics.update">>

\* the operations of the validation loop body, in the order of lines 100-107
ValidBatchOps == <<"model", "criterion", "set_step", "valid_metrics.update">>

OpsOf(names, phase, e, b) ==
    [i \in DOMAIN names |-> [op |-> names[i], phase |-> phase, epoch |-> e,
                             batch_idx |-> b]]

\* line 78: log.update(**{'val_'+k : v for k, v in val_log.items()})
MergeUnprefixed(train_log, val_log) ==
    [k \in DOMAIN train_log \cup DOMAIN val_log |->
        IF k \in DOMAIN val_log THEN val_log[k] ELSE train_log[k]]

MergeValLog(train_log, val_log) ==
    LET prefixed == {"val_" \o k : k \in DOMAIN val_log}
    IN  [key \in DOMAIN train_log \cup prefixed |->
            IF key \in prefixed
            THEN val_log[CHOOSE k \in DOMAIN val_log : "val_" \o k = key]
            ELSE train_log[key]]

\* lines 74-76: the training loop is over; _valid_epoch begins if there is a
\* validation loader (lines 97-98)
LeaveTrainLoop(tracker) ==
    /\ tr_pc' = PhaseAfterTrain
    /\ valid_idx' = 0
    /\ log' = result(tracker)
    /\ valid_metrics' = IF do_validation THEN reset(valid_metrics) ELSE valid_metrics

\* one pass of the training loop body (lines 44-73)
TrainBatch ==
    /\ tr_pc = "train"
    /\ IterationBased \/ batch_idx < tr_cfg.n_batches
    /\ trace' = Append(trace, [ev |-> "train", batch_idx |-> batch_idx,
                               step |-> TrainStep(epoch, batch_idx)])
    /\ loader_pos' = IF IterationBased
                     THEN (loader_pos + 1) % tr_cfg.n_batches
                     ELSE loader_pos
    /\ ops' = ops \o OpsOf(TrainBatchOps, "train", epoch, batch_idx)
    /\ steps' = Append(steps, TrainStep(epoch, batch_idx))
    /\ train_metrics' = UpdateAll(train_metrics, TrackedNames,
                                  <<"train", epoch, batch_idx>>)
    /\ IF Break(batch_idx)
       THEN /\ LeaveTrainLoop(train_metrics')
            /\ UNCHANGED batch_idx
       ELSE /\ batch_idx' = batch_idx + 1
            /\ UNCHANGED <<tr_pc, valid_idx, log, valid_metrics>>
    /\ UNCHANGED <<tr_cfg, epoch, lr_steps>>
    /\ UNCHANGED notTr

\* the data loader is exhausted: the training loop ends (line 44)
TrainLoopExhausted ==
    /\ tr_pc = "train"
    /\ ~IterationBased /\ batch_idx = tr_cfg.n_batches
    /\ LeaveTrainLoop(train_metrics)
    /\ UNCHANGED <<tr_cfg, epoch, batch_idx, loader_pos, lr_steps, trace>>
    /\ UNCHANGED <<train_metrics, ops, steps>>
    /\ UNCHANGED notTr

\* one pass of the validation loop body (lines 95-107)
ValidBatch ==
    /\ tr_pc = "valid"
    /\ valid_idx < TheValue(tr_cfg.valid_data_loader)
    /\ trace' = Append(trace, [ev |-> "valid", batch_idx |-> valid_idx,
                               step |-> (epoch - 1) * TheValue(tr_cfg.valid_data_loader)
                                            + valid_idx])
    /\ valid_idx' = valid_idx + 1
    /\ ops' = ops \o OpsOf(ValidBatchOps, "valid", epoch, valid_idx)
    /\ valid_metrics' = UpdateAll(valid_metrics, TrackedNames,
                                  <<"valid", epoch, valid_idx>>)
    /\ UNCHANGED <<tr_cfg, tr_pc, epoch, batch_idx, loader_pos, lr_steps>>
    /\ UNCHANGED <<train_metrics, log, steps>>
    /\ UNCHANGED notTr

\* _valid_epoch returns (lines 109-112, 78)
EndValidation ==
    /\ tr_pc = "valid"
    /\ valid_idx = TheValue(tr_cfg.valid_data_loader)
    /\ tr_pc' = PhaseAfterValid
    /\ log' = MergeValLog(log, result(valid_metrics))
    /\ UNCHANGED <<tr_cfg, epoch, batch_idx, valid_idx, loader_pos, lr_steps, trace>>
    /\ UNCHANGED <<train_metrics, valid_metrics, ops, steps>>
    /\ UNCHANGED notTr

\* self.lr_scheduler.step() (lines 80-81)
SchedulerStep ==
    /\ tr_pc = "scheduler"
    /\ lr_steps' = lr_steps + 1
    /\ trace' = Append(trace, [ev |-> "sched", batch_idx |-> 0, step |-> 0])
    /\ tr_pc' = "return"
    /\ ops' = Append(ops, [op |-> "lr_scheduler.step", phase |-> "scheduler",
                           epoch |-> epoch, batch_idx |-> 0])
    /\ UNCHANGED <<tr_cfg, epoch, batch_idx, valid_idx, loader_pos>>
    /\ UNCHANGED <<train_metrics, valid_metrics, log, steps>>
    /\ UNCHANGED notTr

\* return log (line 82)
ReturnLog ==
    /\ tr_pc = "return"
    /\ tr_pc' = "epoch_done"
    /\ UNCHANGED <<tr_cfg, epoch, batch_idx, valid_idx, loader_pos, lr_steps, trace>>
    /\ UNCHANGED <<train_metrics, valid_metrics, log, ops, steps>>
    /\ UNCHANGED notTr

\* a Trainer as constructed
TrainerInit(cfgs) ==
    /\ tr_cfg \in cfgs
    /\ tr_pc = "init"
    /\ epoch = 0
    /\ batch_idx = 0
    /\ valid_idx = 0
    /\ loader_pos = 0
    /\ lr_steps = 0
    /\ trace = <<>>
    /\ train_metrics = [k \in {"loss"} \cup Range(tr_cfg.metric_ftns) |-> {}]
    /\ valid_metrics = [k \in {"loss"} \cup Range(tr_cfg.metric_ftns) |-> {}]
    /\ log = <<>>
    /\ ops = <<>>
    /\ steps = <<>>

TrainerConfigs ==
    [n_batches : 1..MaxBatches,
     len_epoch : {None} \cup {Some(n) : n \in 1..MaxBatches},
     valid_data_loader : {None} \cup {Some(n) : n \in 1..MaxBatches},
     lr_scheduler : BOOLEAN,
     epochs : 1..MaxEpochs,
     metric_ftns : {<<>>, <<"accuracy">>}]

TrainerNext ==
    \/ NextEpoch
    \/ EnterTrainEpoch
    \/ TrainBatch
    \/ TrainLoopExhausted
    \/ ValidBatch
    \/ EndValidation
    \/ SchedulerStep
    \/ ReturnLog
    \/ StopTraining

\* no training run
NoTrainer ==
    TrainerInit({[n_batches |-> 1, len_epoch |-> None, valid_data_loader |-> None,
                  lr_scheduler |-> FALSE, epochs |-> 1, metric_ftns |-> <<>>]})

\* ------------------------------------------------------------------------
\* BasicBlock1dWithNorm (layers/Old/BasicBlock1dWithNormWithLNBug.py)
\* ------------------------------------------------------------------------
\* A tensor is its time length (shape[2]) and the operations that made it.

\* layers.LayerUtils.calc_same_padding_for_stride_one: k // 2 (line 46)
calc_same_padding_for_stride_one(dilation, kernel_size) == kernel_size \div 2

\* nn.ConstantPad1d((left, right), 0)
ConstantPad1d(len, left, right) == len + left + right

\* the time length nn.Conv1d, nn.MaxPool1d and nn.AvgPool1d give, without
\* padding and dilation
WindowOut(len, kernel_size, stride) == ((len - kernel_size) \div stride) + 1

\* the padding before a convolution of stride 1 (lines 184-188, 203-207, 229-233)
PadStrideOneSymmetric(len, kernel_size) ==
    LET half_kernel == calc_same_padding_for_stride_one(1, kernel_size)
    IN  ConstantPad1d(len, half_kernel, half_kernel)

PadStrideOne(len, kernel_size) ==
    LET half_kernel == calc_same_padding_for_stride_one(1, kernel_size)
        half_kernel_minus_1 == (kernel_size - 1) \div 2
    IN  IF kernel_size % 2 = 0
        THEN ConstantPad1d(ConstantPad1d(len, 0, 1),
                           half_kernel_minus_1, half_kernel_minus_1)
        ELSE ConstantPad1d(len, half_kernel, half_kernel)

\* the padding before conv3 when the stride is 2 (lines 223-227)
PadStrideTwoIgnoringParity(len, kernel_size) ==
    LET half_last_kernel_minus_1 == (kernel_size - 1) \div 2
    IN  ConstantPad1d(len, half_last_kernel_minus_1, half_last_kernel_minus_1)

PadStrideTwo(len, kernel_size) ==
    LET half_last_kernel == calc_same_padding_for_stride_one(1, kernel_size)
        half_last_kernel_minus_1 == (kernel_size - 1) \div 2
    IN  IF kernel_size % 2 = 0 /\ len % 2 # 0
        THEN ConstantPad1d(len, half_last_kernel, half_last_kernel)
        ELSE ConstantPad1d(len, half_last_kernel_minus_1, half_last_kernel_minus_1)

\* self._downsample and self._poooled_downsample (lines 87-101)
HasDownsample ==
    blk.skips_active /\ ~(blk.stride = 1 /\ blk.in_channels = blk.out_channels)

PooledDownsample == HasDownsample /\ blk.down_sample \in {"max_pool", "avg_pool"}

\* the residual after padding and self._downsample (lines 248-253);
\* the 1x1 convolution that aligns the channels has stride 1
Downsampled(len) ==
    IF PooledDownsample
    THEN WindowOut(IF len % 2 # 0 THEN ConstantPad1d(len, 1, 1) ELSE len,
                   2, blk.stride)
    ELSE WindowOut(len, 1, blk.stride)

\* out += residual is possible: equal lengths, or a residual of length 1,
\* which is broadcast
CanAdd(out_len, residual_len) == residual_len = out_len \/ residual_len = 1

Applied(tensor, op, len) == [len |-> len, ops |-> Append(tensor.ops, op)]

NoTensor == [len |-> 0, ops |-> <<>>]

\* where forward goes after each convolution (lines 191, 210, 236, 247)
PhaseAfterConv1NormAlways ==
    IF blk.norm_pos \in {"all", "last"} THEN "norm1" ELSE "lrelu1"

PhaseAfterConv1 == IF blk.norm_pos = "all" THEN "norm1" ELSE "lrelu1"

PhaseAfterConv2 == IF blk.norm_pos = "all" THEN "norm2" ELSE "lrelu2"

PhaseAfterNorm3 == IF blk.skips_active THEN "residual" ELSE "lrelu3"

PhaseAfterConv3 ==
    IF blk.norm_pos = "all" \/ blk.norm_pos = "last" THEN "norm3" ELSE PhaseAfterNorm3

BlockStep(at, to, new_out) ==
    /\ blk_pc = at
    /\ blk_pc' = to
    /\ blk_out' = new_out
    /\ UNCHANGED <<blk, blk_x, blk_residual>>
    /\ UNCHANGED notBlk

\* forward(x): residual = x (line 181)
Forward ==
    /\ blk_pc = "constructed"
    /\ blk_pc' = "conv1"
    /\ blk_residual' = [len |-> blk_x, ops |-> <<"x">>]
    /\ blk_out' = [len |-> blk_x, ops |-> <<>>]
    /\ UNCHANGED <<blk, blk_x>>
    /\ UNCHANGED notBlk

\* lines 184-189
Conv1 ==
    BlockStep("conv1", PhaseAfterConv1,
              Applied(blk_out, "conv1",
                      WindowOut(PadStrideOne(blk_out.len, blk.mid_kernels_size),
                                blk.mid_kernels_size, 1)))

\* lines 191-199
Norm1 == BlockStep("norm1", "lrelu1", Applied(blk_out, "norm1", blk_out.len))

\* line 200
LRelu1 == BlockStep("lrelu1", "conv2", Applied(blk_out, "lrelu1", blk_out.len))

\* lines 203-208
Conv2 ==
    BlockStep("conv2", PhaseAfterConv2,
              Applied(blk_out, "conv2",
                      WindowOut(PadStrideOne(blk_out.len, blk.mid_kernels_size),
                                blk.mid_kernels_size, 1)))

\* lines 210-218
Norm2 == BlockStep("norm2", "lrelu2", Applied(blk_out, "norm2", blk_out.len))

\* line 219
LRelu2 == BlockStep("lrelu2", "conv3", Applied(blk_out, "lrelu2", blk_out.len))

\* lines 223-234
Conv3 ==
    BlockStep("conv3", PhaseAfterConv3,
              Applied(blk_out, "conv3",
                      WindowOut(IF blk.stride = 2
                                THEN PadStrideTwo(blk_out.len, blk.last_kernel_size)
                                ELSE PadStrideOne(blk_out.len, blk.last_kernel_size),
                                blk.last_kernel_size, blk.stride)))

\* lines 236-244
Norm3 == BlockStep("norm3", PhaseAfterNorm3, Applied(blk_out, "norm3", blk_out.len))

\* lines 247-261: the residual is downsampled and added; the addition raises
\* when the lengths do not fit
Residual ==
    /\ blk_pc = "residual"
    /\ LET res == IF HasDownsample
                  THEN Applied(blk_residual, "downsample", Downsampled(blk_residual.len))
                  ELSE blk_residual
       IN  /\ blk_residual' = res
           /\ IF CanAdd(blk_out.len, res.len)
              THEN /\ blk_out' = Applied(blk_out, "add", blk_out.len)
                   /\ blk_pc' = "lrelu3"
              ELSE /\ blk_pc' = "RuntimeError"
                   /\ UNCHANGED blk_out
    /\ UNCHANGED <<blk, blk_x>>
    /\ UNCHANGED notBlk

\* line 264
LRelu3 == BlockStep("lrelu3", "dropout", Applied(blk_out, "lrelu3", blk_out.len))

\* lines 265-267
Dropout == BlockStep("dropout", "returned", Applied(blk_out, "dropout", blk_out.len))

\* the blocks __init__ accepts (line 32: stride 1 or 2)
BlockConfigs ==
    [in_channels : {1}, out_channels : {1, 2},
     mid_kernels_size : 1..MaxKernel, last_kernel_size : 1..MaxKernel,
     stride : {1, 2}, down_sample : {"conv", "max_pool", "avg_pool"},
     norm_type : {"BN", "IN", "LN"}, norm_pos : {"all", "last"},
     skips_active : BOOLEAN]

BlockInit(cfgs, lens) ==
    /\ blk \in cfgs
    /\ blk_x \in lens
    /\ blk_pc = "constructed"
    /\ blk_out = NoTensor
    /\ blk_residual = NoTensor

BlockNext ==
    \/ Forward
    \/ Conv1 \/ Norm1 \/ LRelu1
    \/ Conv2 \/ Norm2 \/ LRelu2
    \/ Conv3 \/ Norm3
    \/ Residual
    \/ LRelu3 \/ Dropout

\* no block
NoBlock ==
    BlockInit({[in_channels |-> 1, out_channels |-> 1, mid_kernels_size |-> 1,
                last_kernel_size |-> 1, stride |-> 1, down_sample |-> "conv",
                norm_type |-> "BN", norm_pos |-> "all", skips_active |-> FALSE]},
              {1})

\* ------------------------------------------------------------------------
\* prepare_device (utils/util.py)
\* ------------------------------------------------------------------------
\* n_gpu_use after the warning that no GPU is available (line 47)
KeepRequested(requested) == requested

FallBackToCpu(requested) == 0

\* list(range(n))
ListRange(n) == [i \in 1..n |-> i - 1]

\* prepare_device(n_gpu_use) is called
CallPrepareDevice ==
    /\ dev_pc = "idle"
    /\ dev_pc' = "no_gpu_check"
    /\ n_gpu_use' = dev_arg
    /\ UNCHANGED <<n_gpu, dev_arg, warnings, dev_ret>>
    /\ UNCHANGED notDev

\* lines 43-47
CheckNoGpu ==
    /\ dev_pc = "no_gpu_check"
    /\ dev_pc' = "clamp_check"
    /\ IF n_gpu_use > 0 /\ n_gpu = 0
       THEN /\ warnings' = Append(warnings, "no GPU available")
            /\ n_gpu_use' = FallBackToCpu(n_gpu_use)
       ELSE UNCHANGED <<warnings, n_gpu_use>>
    /\ UNCHANGED <<n_gpu, dev_arg, dev_ret>>
    /\ UNCHANGED notDev

\* lines 48-51
ClampToAvailable ==
    /\ dev_pc = "clamp_check"
    /\ dev_pc' = "select"
    /\ IF n_gpu_use > n_gpu
       THEN /\ warnings' = Append(warnings, "fewer GPUs available")
            /\ n_gpu_use' = n_gpu
       ELSE UNCHANGED <<warnings, n_gpu_use>>
    /\ UNCHANGED <<n_gpu, dev_arg, dev_ret>>
    /\ UNCHANGED notDev

\* lines 52-54
ReturnDevice ==
    /\ dev_pc = "select"
    /\ dev_pc' = "returned"
    /\ dev_ret' = [device |-> IF n_gpu_use > 0 THEN "cuda:0" ELSE "cpu",
                   list_ids |-> ListRange(n_gpu_use)]
    /\ UNCHANGED <<n_gpu, dev_arg, n_gpu_use, warnings>>
    /\ UNCHANGED notDev

NoDeviceYet == [device |-> "none", list_ids |-> <<>>]

\* a machine with some GPUs, and a caller asking for some
DeviceInit(requests, machines) ==
    /\ n_gpu \in machines
    /\ dev_arg \in requests
    /\ n_gpu_use = 0
    /\ warnings = <<>>
    /\ dev_pc = "idle"
    /\ dev_ret = NoDeviceYet

DeviceNext ==
    \/ CallPrepareDevice
    \/ CheckNoGpu
    \/ ClampToAvailable
    \/ ReturnDevice

\* prepare_device is not called
NoDevice == DeviceInit({0}, {0})

\* ------------------------------------------------------------------------
\* train_model (train.py)
\* ------------------------------------------------------------------------
\* the data loaders train_model trains with (lines 793-808)
DataLoaderSource ==
    IF tm_args.use_tune THEN "data_loader = train_dl"
    ELSE IF tm_args.cv_active THEN "data_loader = init_obj(cross_valid=True)"
    ELSE "data_loader = init_obj()"

\* the assertion of line 723 passes
ModesNotChecked == TRUE

ModesExclusive == tm_args.use_tune = FALSE \/ tm_args.cv_active = FALSE

TrainModelStep(at, to, events) ==
    /\ tm_pc = at
    /\ tm_pc' = to
    /\ tm_events' = tm_events \o events
    /\ UNCHANGED tm_args
    /\ UNCHANGED notTm

\* line 723
AssertModes ==
    TrainModelStep("called",
                   IF ModesExclusive THEN "seed" ELSE "AssertionError", <<>>)

\* lines 725-739: seeding inside a tuning worker
SeedInWorker ==
    TrainModelStep("seed", "logging",
                   IF tm_args.use_tune THEN <<"seed">> ELSE <<>>)

\* lines 777-790
SetupLogging ==
    TrainModelStep("logging", "data_loader",
                   (IF tm_args.use_tune THEN <<"log_dir: trial">> ELSE <<>>)
                   \o (IF tm_args.use_tune /\ tm_args.checkpoint_dir
                       THEN <<"resume">> ELSE <<>>)
                   \o (IF tm_args.k_fold THEN <<"logger: train_fold">>
                       ELSE <<"logger: train">>))

\* lines 792-808
SetupDataLoaders ==
    TrainModelStep("data_loader", "model", <<DataLoaderSource>>)

\* lines 810-821
BuildModel ==
    TrainModelStep("model", "trainer",
                   <<IF tm_args.tune_config THEN "model: tune_config" ELSE "model">>)

\* lines 838-858
BuildTrainer ==
    TrainModelStep("trainer", "train",
                   (IF tm_args.lr_scheduler THEN <<"lr_scheduler">> ELSE <<>>)
                   \o <<"trainer">>)

\* line 860
Train == TrainModelStep("train", "save", <<"train">>)

\* lines 861-867
SaveBestMetrics ==
    TrainModelStep("save", "returned",
                   <<IF tm_args.use_tune THEN "model_best_metrics.p: trial"
                     ELSE "model_best_metrics.p: log_dir">>)

TrainModelArgs ==
    [use_tune : BOOLEAN, cv_active : BOOLEAN, tune_config : BOOLEAN,
     checkpoint_dir : BOOLEAN, k_fold : BOOLEAN, lr_scheduler : BOOLEAN]

TrainModelInit(args) ==
    /\ tm_args \in args
    /\ tm_pc = "called"
    /\ tm_events = <<>>

TrainModelNext ==
    \/ AssertModes
    \/ SeedInWorker
    \/ SetupLogging
    \/ SetupDataLoaders
    \/ BuildModel
    \/ BuildTrainer
    \/ Train
    \/ SaveBestMetrics

\* train_model is not called
NoTrainModel ==
    TrainModelInit({[use_tune |-> FALSE, cv_active |-> FALSE, tune_config |-> FALSE,
                     checkpoint_dir |-> FALSE, k_fold |-> FALSE,
                     lr_scheduler |-> FALSE]})

\* ------------------------------------------------------------------------
\* The command-line entry point (train.py, lines 870-899)
\* ------------------------------------------------------------------------
\* default of --seed (line 879)
DefaultSeed == 123

\* the seeds of the runs considered
Seeds == 0..MaxSeed \cup {DefaultSeed}

\* ConfigParser.from_args (parse_config.py, not part of the sources at hand):
\* the value of --seed becomes the process-wide seed global_config.SEED
from_args(args) == args.seed

\* line 891: config.config.get("SEED", global_config.SEED)
SeedFromFallbackOnly(config_SEED, fallback) == fallback

EffectiveSeed(config_SEED, fallback) ==
    IF config_SEED = None THEN fallback ELSE TheValue(config_SEED)

\* _set_seed, lines 46-49: the generators seeded
_set_seed(SEED) == [numpy |-> SEED, torch |-> SEED, random |-> SEED, cuda |-> SEED]

Unseeded == [numpy |-> -1, torch |-> -1, random |-> -1, cuda |-> -1]

EntryStep(at, to, events) ==
    /\ ep_pc = at
    /\ ep_pc' = to
    /\ ep_events' = ep_events \o events
    /\ UNCHANGED ep_args
    /\ UNCHANGED notEp

\* line 888
ParseArgs ==
    /\ EntryStep("start", "parsed", <<>>)
    /\ global_SEED' = from_args(ep_args)
    /\ UNCHANGED rng

\* line 891
ResolveSeed ==
    /\ EntryStep("parsed", "resolved", <<>>)
    /\ global_SEED' = EffectiveSeed(ep_args.config_SEED, global_SEED)
    /\ UNCHANGED rng

\* line 892
SetSeed ==
    /\ EntryStep("resolved", "seeded", <<"_set_seed">>)
    /\ rng' = _set_seed(global_SEED)
    /\ UNCHANGED global_SEED

\* lines 894-899
Dispatch ==
    /\ EntryStep("seeded", "dispatched",
                 <<IF ep_args.use_tune THEN "hyper_study" ELSE "train_model">>)
    /\ UNCHANGED <<global_SEED, rng>>

EntryArgs == [seed : Seeds, config_SEED : {None} \cup {Some(v) : v \in Seeds},
              use_tune : BOOLEAN]

\* module_seeds: what global_config.SEED holds when the module is imported
EntryInit(args, module_seeds) ==
    /\ ep_args \in args
    /\ global_SEED \in module_seeds
    /\ rng = Unseeded
    /\ ep_pc = "start"
    /\ ep_events = <<>>

EntryNext ==
    \/ ParseArgs
    \/ ResolveSeed
    \/ SetSeed
    \/ Dispatch

\* the entry point is not run
NoEntry ==
    EntryInit({[seed |-> DefaultSeed, config_SEED |-> None, use_tune |-> FALSE]},
              {DefaultSeed})

\* ------------------------------------------------------------------------
\* The cross-validation summarizer (summarize_cross_valid.py)
\* ------------------------------------------------------------------------
\* range(1, 11), line 42
NumFolds == 10

\* lines 31-40: the columns of df_results
ResultColumns(cfg) ==
    <<"Fold", "SNR", "AF", "IAVB", "LBBB", "RBBB", "PAC", "VEB", "STD", "STE">>
    \o (IF cfg.include_weighted_avg THEN <<"W-AVG_F1", "W-AVG_ROC", "W-AVG_Acc">>
        ELSE IF cfg.include_at_least_weighted_F1 THEN <<"W-AVG_F1">>
        ELSE <<>>)
    \o <<"m-AVG_F1", "m-AVG_ROC", "m-AVG_Acc", "MR">>

\* lines 16-19
col_name_acc(cfg) == IF cfg.thresholds_active THEN "torch_acc" ELSE "torch_accuracy"

\* a cell of df_class_wise, a number as a fraction
ClassWiseCell(cfg, fold, metric, column) == Frac(cfg.class_wise, 1)

\* lines 43-75: row_values of one fold; mr is the fold's sk_subset_accuracy
RowValues(cfg, fold, mr) ==
    <<Frac(fold, 1)>>
    \o [i \in 1..9 |-> ClassWiseCell(cfg, fold, "f1-score", i)]
    \o (IF cfg.include_weighted_avg
        THEN <<ClassWiseCell(cfg, fold, "f1-score", "weighted avg"),
               ClassWiseCell(cfg, fold, "torch_roc_auc", "weighted avg"),
               ClassWiseCell(cfg, fold, col_name_acc(cfg), "weighted avg")>>
        ELSE IF cfg.include_at_least_weighted_F1
        THEN <<ClassWiseCell(cfg, fold, "f1-score", "weighted avg")>>
        ELSE <<>>)
    \o <<ClassWiseCell(cfg, fold, "f1-score", "macro avg"),
          ClassWiseCell(cfg, fold, "torch_roc_auc", "macro avg"),
          ClassWiseCell(cfg, fold, col_name_acc(cfg), "macro avg"),
          Frac(mr, 1)>>

\* the sum of column c of the rows, over the common denominator 1 (the cells
\* of the fold rows are whole numbers of the unit the tables are rounded to)
RECURSIVE CellSum(_, _, _)
CellSum(rows, c, n) ==
    IF n = 0 THEN 0 ELSE CellSum(rows, c, n - 1) + rows[n].values[c][1]

\* DataFrame.mean(): the mean of every column, the Fold column included
Mean(df) ==
    [c \in 1..Len(df[1].values) |-> Frac(CellSum(df, c, Len(df)), Len(df))]

\* round(3) of a fraction: to the nearest thousandth, halves to even
Round3(x) ==
    LET q == (1000 * x[1]) \div x[2]
        r == (1000 * x[1]) % x[2]
        up == 2 * r > x[2] \/ (2 * r = x[2] /\ q % 2 = 1)
    IN  Frac(IF up THEN q + 1 ELSE q, 1000)

SummaryStep(at, to) ==
    /\ sum_pc = at
    /\ sum_pc' = to
    /\ UNCHANGED sum_cfg
    /\ UNCHANGED notSum

\* lines 31-40
CreateTable ==
    /\ SummaryStep("start", "loop")
    /\ df_results' = <<>>
    /\ sum_fold' = 1

\* lines 42-75, one iteration
AppendFoldRow ==
    /\ sum_fold <= NumFolds
    /\ SummaryStep("loop", "loop")
    /\ \E mr \in 0..MaxMetric :
          df_results' = Append(df_results,
                               [index |-> Len(df_results),
                                values |-> RowValues(sum_cfg, sum_fold, mr)])
    /\ sum_fold' = sum_fold + 1

\* line 77: Fold becomes an integer column; the values stay what they are
ToNumeric ==
    /\ sum_fold > NumFolds
    /\ SummaryStep("loop", "numeric")
    /\ UNCHANGED <<df_results, sum_fold>>

\* line 79
AppendMean ==
    /\ SummaryStep("numeric", "mean")
    /\ df_results' = Append(df_results, [index |-> "mean", values |-> Mean(df_results)])
    /\ UNCHANGED sum_fold

\* line 80
RoundTable ==
    /\ SummaryStep("mean", "rounded")
    /\ df_results' = [r \in DOMAIN df_results |->
                         [df_results[r] EXCEPT
                             !.values = [c \in DOMAIN @ |-> Round3(@[c])]]]
    /\ UNCHANGED sum_fold

\* lines 83-85: to_latex(index=False) writes the cells, not the index labels
ToLatex ==
    /\ SummaryStep("rounded", "done")
    /\ UNCHANGED <<df_results, sum_fold>>

SummaryConfigs ==
    [thresholds_active : BOOLEAN, include_weighted_avg : BOOLEAN,
     include_at_least_weighted_F1 : BOOLEAN, class_wise : 0..MaxMetric]

SummaryInit(cfgs) ==
    /\ sum_cfg \in cfgs
    /\ df_results = <<>>
    /\ sum_fold = 1
    /\ sum_pc = "start"

SummaryNext ==
    \/ CreateTable
    \/ AppendFoldRow
    \/ ToNumeric
    \/ AppendMean
    \/ RoundTable
    \/ ToLatex

\* the summarizer is not run
NoSummary ==
    SummaryInit({[thresholds_active |-> FALSE, include_weighted_avg |-> TRUE,
                  include_at_least_weighted_F1 |-> TRUE, class_wise |-> 0]})

\* ------------------------------------------------------------------------
\* inf_loop (utils/util.py, lines 33-36)
\* ------------------------------------------------------------------------
\* the consumer asks the generator for its next item
RequestNext ==
    /\ loop_pc = "suspended"
    /\ Len(loop_items) < MaxRequests
    /\ loop_pc' = "requested"
    /\ UNCHANGED <<loop_n, loop_pos, loop_items>>
    /\ UNCHANGED notLoop

\* line 36: yield from loader, the next item of the current pass
YieldItem ==
    /\ loop_pc = "requested"
    /\ loop_pos < loop_n
    /\ loop_items' = Append(loop_items, loop_pos)
    /\ loop_pos' = loop_pos + 1
    /\ loop_pc' = "suspended"
    /\ UNCHANGED loop_n
    /\ UNCHANGED notLoop

\* the generator ends with the pass over the loader
StopAtEnd ==
    /\ loop_pc = "requested"
    /\ loop_pos = loop_n
    /\ loop_pc' = "StopIteration"
    /\ UNCHANGED <<loop_n, loop_pos, loop_items>>
    /\ UNCHANGED notLoop

\* line 35: the pass is over, repeat() hands out the loader once more
Restart ==
    /\ loop_pc = "requested"
    /\ loop_pos = loop_n
    /\ loop_pos' = 0
    /\ UNCHANGED <<loop_n, loop_pc, loop_items>>
    /\ UNCHANGED notLoop

LoopInit(lens) ==
    /\ loop_n \in lens
    /\ loop_pos = 0
    /\ loop_pc = "suspended"
    /\ loop_items = <<>>

LoopNext ==
    \/ RequestNext
    \/ YieldItem
    \/ Restart

\* no generator is made
NoLoop == LoopInit({1})

\* ------------------------------------------------------------------------
\* Workers calling get_class_frequency for one key at the same time
\* (data_loader/ecg_data_set.py, lines 13-18 and 183-229; utils/util.py,
\* lines 15-18). Every worker passes the same idx_list, a mode, and
\* cross_valid_active = False; each step is one access to the file system.
\* ------------------------------------------------------------------------
Absent == "absent"

\* the sorted record names of the idx_list the workers pass
WorkerNames == <<"A0001.pk", "A0002.pk">>

\* a file position nothing was written to
Hole == "\\0"

\* the file after a write of text at line position i
WriteAt(file, i, text) ==
    [k \in 1..(IF Len(file) > i THEN Len(file) ELSE i) |->
        IF k = i THEN text ELSE IF k <= Len(file) THEN file[k] ELSE Hole]

WorkerStep(w, at, to) ==
    /\ w_pc[w] = at
    /\ w_pc' = [w_pc EXCEPT ![w] = to]
    /\ UNCHANGED workers
    /\ UNCHANGED notWk

\* line 183: os.path.isfile(file_name)
TestCache(w) ==
    /\ WorkerStep(w, "called", IF cache # Absent THEN "check" ELSE "ensure_dir")
    /\ UNCHANGED <<w_line, w_read, log_dir, manifest, cache>>

\* lines 235-236: the manifest is read as it is on disk
ReadManifest(w) ==
    /\ manifest # None
    /\ WorkerStep(w, "check", "assert_split")
    /\ w_read' = [w_read EXCEPT ![w] = TheValue(manifest)]
    /\ UNCHANGED <<w_line, log_dir, manifest, cache>>

\* line 251
AssertSplit(w) ==
    /\ WorkerStep(w, "assert_split",
                  IF w_read[w] = WorkerNames THEN "load" ELSE "DataSplitError")
    /\ UNCHANGED <<w_line, w_read, log_dir, manifest, cache>>

\* lines 189-190: pickle.load of the cache file as it is on disk
LoadCache(w) ==
    /\ WorkerStep(w, "load", IF cache = "complete" THEN "returned" ELSE "EOFError")
    /\ UNCHANGED <<w_line, w_read, log_dir, manifest, cache>>

\* ensure_dir, line 17: dirname.is_dir()
TestLogDir(w) ==
    /\ WorkerStep(w, "ensure_dir", IF log_dir THEN "open_manifest" ELSE "mkdir")
    /\ UNCHANGED <<w_line, w_read, log_dir, manifest, cache>>

\* ensure_dir, line 18: mkdir(parents=True, exist_ok=False)
MakeLogDir(w) ==
    /\ WorkerStep(w, "mkdir", IF log_dir THEN "FileExistsError" ELSE "open_manifest")
    /\ log_dir' = TRUE
    /\ UNCHANGED <<w_line, w_read, manifest, cache>>

\* line 16: open(..., "w+") creates the manifest or empties it
OpenManifest(w) ==
    /\ WorkerStep(w, "open_manifest", "write_manifest")
    /\ manifest' = Some(<<>>)
    /\ w_line' = [w_line EXCEPT ![w] = 0]
    /\ UNCHANGED <<w_read, log_dir, cache>>

\* lines 17-18: the next line is written at the position the worker is at
WriteManifestLine(w) ==
    /\ w_line[w] < Len(WorkerNames)
    /\ WorkerStep(w, "write_manifest", "write_manifest")
    /\ manifest' = Some(WriteAt(TheValue(manifest), w_line[w] + 1,
                                WorkerNames[w_line[w] + 1]))
    /\ w_line' = [w_line EXCEPT ![w] = @ + 1]
    /\ UNCHANGED <<w_read, log_dir, cache>>

\* the manifest is closed; lines 214-223 compute the statistic, every class
\* occurs; line 228: open(file_name, "wb") creates the cache or empties it
OpenCache(w) ==
    /\ w_line[w] = Len(WorkerNames)
    /\ WorkerStep(w, "write_manifest", "dump")
    /\ cache' = "partial"
    /\ UNCHANGED <<w_line, w_read, log_dir, manifest>>

\* line 229: pickle.dump, and the file is closed
DumpCache(w) ==
    /\ WorkerStep(w, "dump", "returned")
    /\ cache' = "complete"
    /\ UNCHANGED <<w_line, w_read, log_dir, manifest>>

\* n workers are started; the log directory may exist, no file does
WorkersInit(counts, dirs) ==
    /\ workers \in {1..n : n \in counts}
    /\ w_pc = [w \in workers |-> "called"]
    /\ w_line = [w \in workers |-> 0]
    /\ w_read = [w \in workers |-> <<>>]
    /\ log_dir \in dirs
    /\ manifest = None
    /\ cache = Absent

WorkersNext ==
    \/ \E w \in workers : TestCache(w)
    \/ \E w \in workers : ReadManifest(w)
    \/ \E w \in workers : AssertSplit(w)
    \/ \E w \in workers : LoadCache(w)
    \/ \E w \in workers : TestLogDir(w)
    \/ \E w \in workers : MakeLogDir(w)
    \/ \E w \in workers : OpenManifest(w)
    \/ \E w \in workers : WriteManifestLine(w)
    \/ \E w \in workers : OpenCache(w)
    \/ \E w \in workers : DumpCache(w)

\* no worker is started
NoWorkers == WorkersInit({0}, {TRUE})

\* none of the components driven on their own is running
NoLate == NoEntry /\ NoSummary /\ NoLoop /\ NoWorkers

\* ------------------------------------------------------------------------
\* Specifications
\* ------------------------------------------------------------------------
\* calls with and without cross-validation on an initially empty log directory
Init ==
    /\ DatasetInit(TrainDir, SmallDir, [modes |-> {"train", NoMode}, cvs |-> BOOLEAN,
                              minlen |-> 1, maxlen |-> MaxIdxLen])
    /\ NoStudy
    /\ NoTrainer
    /\ NoBlock
    /\ NoDevice
    /\ NoTrainModel
    /\ NoLate

Next == DatasetNext

Spec == Init /\ [][Next]_vars

\* cross-validation calls over longer idx_lists
InitCV ==
    /\ DatasetInit(TrainDir, LargeDir, [modes |-> {"train", NoMode}, cvs |-> {TRUE},
                              minlen |-> 1, maxlen |-> MaxCVLen])
    /\ NoStudy
    /\ NoTrainer
    /\ NoBlock
    /\ NoDevice
    /\ NoTrainModel
    /\ NoLate

SpecCV == InitCV /\ [][Next]_vars

\* calls that may pass an empty idx_list
InitEmpty ==
    /\ DatasetInit(TrainDir, SmallDir, [modes |-> {"train", NoMode}, cvs |-> BOOLEAN,
                              minlen |-> 0, maxlen |-> MaxEdgeLen])
    /\ NoStudy
    /\ NoTrainer
    /\ NoBlock
    /\ NoDevice
    /\ NoTrainModel
    /\ NoLate

SpecEmpty == InitEmpty /\ [][Next]_vars

\* records are retrieved, and statistics computed, on a directory with a
\* record of an unknown label
InitItems ==
    /\ DatasetInit(TrainDir, MixedDir, [modes |-> {"train"}, cvs |-> BOOLEAN,
                              minlen |-> 1, maxlen |-> MaxIdxLen])
    /\ NoStudy
    /\ NoTrainer
    /\ NoBlock
    /\ NoDevice
    /\ NoTrainModel
    /\ NoLate

NextItems == DatasetNext \/ GetItem

SpecItems == InitItems /\ [][NextItems]_vars

\* datasets constructed over directories of any files
InitListing ==
    /\ \E dir \in Directories :
          DatasetInit(TrainDir, dir, [modes |-> {NoMode}, cvs |-> {TRUE},
                            minlen |-> 1, maxlen |-> MaxEdgeLen])
    /\ NoStudy
    /\ NoTrainer
    /\ NoBlock
    /\ NoDevice
    /\ NoTrainModel
    /\ NoLate

SpecListing == InitListing /\ [][NextItems]_vars

\* datasets over several input directories, asked for the statistics of their
\* validation and test splits
InputDirs == {TrainDir, AbsoluteTrainDir, TestDir, SuperDiagDir, SubDiagTestDir}

InitDirs ==
    /\ \E path \in InputDirs :
          DatasetInit(path, TinyDir, [modes |-> {"valid", "test"}, cvs |-> BOOLEAN,
                                      minlen |-> 1, maxlen |-> MaxIdxLen])
    /\ NoStudy
    /\ NoTrainer
    /\ NoBlock
    /\ NoDevice
    /\ NoTrainModel
    /\ NoLate

SpecDirs == InitDirs /\ [][Next]_vars

\* no call is made on the dataset
NoCalls == DatasetInit(TrainDir, SmallDir, [modes |-> {}, cvs |-> {}, minlen |-> 1, maxlen |-> 0])

\* a tuning study
InitTune ==
    /\ TuneInit(TuneConfigs)
    /\ NoCalls
    /\ NoTrainer
    /\ NoBlock
    /\ NoDevice
    /\ NoTrainModel
    /\ NoLate

SpecTune == InitTune /\ [][TuneNext]_vars

\* a training run
InitTrainer ==
    /\ TrainerInit(TrainerConfigs)
    /\ NoCalls
    /\ NoStudy
    /\ NoBlock
    /\ NoDevice
    /\ NoTrainModel
    /\ NoLate

SpecTrainer == InitTrainer /\ [][TrainerNext]_vars

\* forward passes of the blocks
InitBlock ==
    /\ BlockInit(BlockConfigs, 1..MaxTimeLen)
    /\ NoCalls
    /\ NoStudy
    /\ NoTrainer
    /\ NoDevice
    /\ NoTrainModel
    /\ NoLate

SpecBlock == InitBlock /\ [][BlockNext]_vars

\* calls of prepare_device on machines with 0 .. MaxGpus GPUs
InitDevice ==
    /\ DeviceInit(0..MaxGpus, 0..MaxGpus)
    /\ NoCalls
    /\ NoStudy
    /\ NoTrainer
    /\ NoBlock
    /\ NoTrainModel
    /\ NoLate

SpecDevice == InitDevice /\ [][DeviceNext]_vars

\* calls of train_model
InitTrainModel ==
    /\ TrainModelInit(TrainModelArgs)
    /\ NoCalls
    /\ NoStudy
    /\ NoTrainer
    /\ NoBlock
    /\ NoDevice
    /\ NoLate

SpecTrainModel == InitTrainModel /\ [][TrainModelNext]_vars

\* runs of the entry point, for every command line and configuration
InitEntry ==
    /\ EntryInit(EntryArgs, Seeds)
    /\ NoCalls
    /\ NoStudy
    /\ NoTrainer
    /\ NoBlock
    /\ NoDevice
    /\ NoTrainModel
    /\ NoSummary
    /\ NoLoop
    /\ NoWorkers

SpecEntry == InitEntry /\ [][EntryNext]_vars

\* runs of the summarizer, for every setting of its flags
InitSummary ==
    /\ SummaryInit(SummaryConfigs)
    /\ NoCalls
    /\ NoStudy
    /\ NoTrainer
    /\ NoBlock
    /\ NoDevice
    /\ NoTrainModel
    /\ NoEntry
    /\ NoLoop
    /\ NoWorkers

SpecSummary == InitSummary /\ [][SummaryNext]_vars

\* generators over loaders of 1 .. MaxBatches items; the generator runs
\* whenever it has been asked for an item
InitLoop ==
    /\ LoopInit(1..MaxBatches)
    /\ NoCalls
    /\ NoStudy
    /\ NoTrainer
    /\ NoBlock
    /\ NoDevice
    /\ NoTrainModel
    /\ NoEntry
    /\ NoSummary
    /\ NoWorkers

SpecLoop ==
    InitLoop /\ [][LoopNext]_vars /\ WF_vars(YieldItem) /\ WF_vars(Restart)

\* two to MaxWorkers workers ask for the same statistic at the same time
InitWorkers ==
    /\ WorkersInit(2..MaxWorkers, BOOLEAN)
    /\ NoCalls
    /\ NoStudy
    /\ NoTrainer
    /\ NoBlock
    /\ NoDevice
    /\ NoTrainModel
    /\ NoEntry
    /\ NoSummary
    /\ NoLoop

SpecWorkers == InitWorkers /\ [][WorkersNext]_vars

\* ========================================================================
\* Claims about the dataset statistics
\* ========================================================================
\* the cache file a call reads or writes
CacheFileOf(c) ==
    IF c.fn = "get_ml_pos_weights" THEN PosWeightsFile(EffectiveMode(c.mode))
    ELSE ClassFreqsFile(c.multi_label_training, EffectiveMode(c.mode))

\* the manifest that accompanies it
ManifestOf(c) ==
    RecordNamesFile(EffectiveMode(c.mode),
                    IF c.fn = "get_ml_pos_weights" THEN <<"pos", "weights">> ELSE <<"class", "freqs">>)

\* reference counts, taken from the record files directly
MetaAt(idx_list, i) == pickles[records[idx_list[i] + 1]]

PositiveCount(idx_list, k) ==
    Cardinality({i \in DOMAIN idx_list : MetaAt(idx_list, i).classes_one_hot[k] = 1})

PrimaryCount(idx_list, k) ==
    Cardinality({i \in DOMAIN idx_list : MetaAt(idx_list, i).classes_encoded[1] = k - 1})

\* the occurrence count a call is about
OccurrenceCount(c, k) ==
    IF c.fn = "get_ml_pos_weights" \/ c.multi_label_training
    THEN PositiveCount(c.idx_list, k)
    ELSE PrimaryCount(c.idx_list, k)

ClassPositions == 1..Cardinality(class_labels)

TotalOccurrences(c) ==
    LET counts == [k \in ClassPositions |-> OccurrenceCount(c, k)]
    IN  SumSeq(counts)

EveryClassOccurs(c) == \A k \in ClassPositions : OccurrenceCount(c, k) > 0

\* fraction f (a pair) equals a / b
IsQuotient(f, a, b) == f[2] > 0 /\ f[1] * b = a * f[2]

\* ret is the statistic of call c over c.idx_list
IsStatisticOf(ret, c) ==
    /\ DOMAIN ret = ClassPositions
    /\ \A k \in ClassPositions :
         LET n == OccurrenceCount(c, k)
         IN  CASE c.fn = "get_ml_pos_weights" ->
                    IsQuotient(ret[k], Len(c.idx_list) - n, n)
               [] c.fn = "get_class_frequency" -> ret[k] = n
               [] OTHER -> IsQuotient(ret[k], TotalOccurrences(c), n)

SameMultiset(s, t) ==
    \A x \in Range(s) \cup Range(t) : CountIn(x, s) = CountIn(x, t)

\* C1: with cross-validation off, a call never returns a cached statistic that
\* was computed over a record set other than the record set of its idx_list.
\* (Violated: the single-label and the multi-label class frequencies share one
\* manifest, which the later computation rewrites.)
C1_NoStaleCachedStatistic ==
    (pc = "returned" /\ ~call.cross_valid_active /\ out.err = "none"
        /\ ~out.recomputed)
    => Range(origin[CacheFileOf(call)].names) = Range(RecordNames(call.idx_list))

\* C2: a call with cross_valid_active = True leaves every file as it is, never
\* runs the consistency check, and its outcome is the from-scratch result of
\* its own idx_list, whatever the log directory holds.
C2_CrossValidationBypassesCache ==
    [][(pc' = "returned" /\ call'.cross_valid_active)
        => /\ files' = files
           /\ ~out'.checked
           /\ out'.err = (IF EveryClassOccurs(call') THEN "none" ELSE "ZeroOccurrence")
           /\ out'.err = "none" => (out'.recomputed /\ IsStatisticOf(out'.ret, call'))]_vars

\* a cross-validation call succeeds although a cache computed over other
\* records exists for its key
C2_Witness ==
    /\ pc = "returned" /\ call.cross_valid_active /\ out.err = "none"
    /\ CacheFileOf(call) \in DOMAIN files
    /\ Range(origin[CacheFileOf(call)].names) # Range(RecordNames(call.idx_list))
    /\ files[CacheFileOf(call)] # (IF call.fn = "get_ml_pos_weights"
                                   THEN PosWeightsDf(call.idx_list)
                                   ELSE ClassFreqsDf(call.idx_list, call.multi_label_training))

\* C3 as stated: the consistency check passes exactly when the SET of record
\* names of idx_list equals the set of names in the manifest.
C3_PassesIffSameSet ==
    (pc = "returned" /\ out.checked)
    => ((out.err = "none")
          <=> Range(RecordNames(call.idx_list)) = Range(files[ManifestOf(call)]))

\* C3 amended: the check passes exactly when idx_list names the same records
\* as the manifest with the same multiplicities (order ignored), and fails
\* with the Data Split Error otherwise.
C3_PassesIffSameMultiset ==
    (pc = "returned" /\ out.checked)
    => /\ out.err \in {"none", "DataSplitError"}
       /\ (out.err = "none")
            <=> SameMultiset(RecordNames(call.idx_list), files[ManifestOf(call)])

\* the check passes for an idx_list in another order than the manifest
C3_Witness ==
    /\ pc = "returned" /\ out.checked /\ out.err = "none"
    /\ Len(call.idx_list) > 1
    /\ RecordNames(call.idx_list) # files[ManifestOf(call)]

\* C4: once a statistic has been computed and persisted over L (and the
\* manifest lists L, as it does when the computing call returns), a call of
\* the same kind, mode and multi_label_training over L or a permutation of L
\* returns the value of the first call without recomputing, and changes no file.
C4_CachedValueReturned ==
    [][(/\ pc = "idle" /\ pc' = "returned" /\ ~call'.cross_valid_active
        /\ CacheFileOf(call') \in DOMAIN origin
        /\ files[ManifestOf(call')] = origin[CacheFileOf(call')].names
        /\ SameMultiset(RecordNames(call'.idx_list), origin[CacheFileOf(call')].names))
       => /\ out'.err = "none" /\ ~out'.recomputed
          /\ out'.ret = (IF call'.fn = "get_ml_pos_weights"
                         THEN origin[CacheFileOf(call')].df.ratio_neg_to_pos
                         ELSE IF call'.inverse
                         THEN origin[CacheFileOf(call')].df.Inverse_class_freq
                         ELSE origin[CacheFileOf(call')].df.Class_freq)
          /\ IsStatisticOf(out'.ret, call')
          /\ files' = files]_vars

\* a permutation of the persisted idx_list is served from the cache
C4_Witness ==
    /\ pc = "returned" /\ ~call.cross_valid_active /\ ~out.recomputed
    /\ out.err = "none" /\ out.checked
    /\ Len(call.idx_list) > 1
    /\ RecordNames(call.idx_list) # origin[CacheFileOf(call)].names
    /\ SameMultiset(RecordNames(call.idx_list), origin[CacheFileOf(call)].names)

\* C9: computed from scratch, the positive weight of each class is
\* (N - p) / p, N = len(idx_list), p = the number of entries of idx_list whose
\* record has the class set.
C9_PosWeightIsNegOverPos ==
    (pc = "returned" /\ call.fn = "get_ml_pos_weights" /\ out.recomputed)
    => /\ DOMAIN out.ret = ClassPositions
       /\ \A k \in ClassPositions :
            LET p == PositiveCount(call.idx_list, k)
            IN  p > 0 /\ IsQuotient(out.ret[k], Len(call.idx_list) - p, p)

\* a class positive in exactly 1 of 4 records gets weight 3
C9_Witness ==
    /\ pc = "returned" /\ call.fn = "get_ml_pos_weights" /\ out.recomputed
    /\ Len(call.idx_list) = 4
    /\ \E k \in ClassPositions :
         PositiveCount(call.idx_list, k) = 1 /\ out.ret[k] = <<3, 1>>

\* C10: computed from scratch, the frequency of a class is the number of
\* entries of idx_list having it set (multi-label) or having it as first
\* encoded label (single-label); the inverse frequency is the sum of all
\* class frequencies divided by the class's frequency.
C10_ClassFrequencies ==
    (pc = "returned" /\ call.fn # "get_ml_pos_weights" /\ out.recomputed)
    => /\ DOMAIN out.ret = ClassPositions
       /\ \A k \in ClassPositions :
            LET n == IF call.multi_label_training
                     THEN PositiveCount(call.idx_list, k)
                     ELSE PrimaryCount(call.idx_list, k)
                total == SumSeq([j \in ClassPositions |->
                             IF call.multi_label_training
                             THEN PositiveCount(call.idx_list, j)
                             ELSE PrimaryCount(call.idx_list, j)])
            IN  /\ n > 0
                /\ call.fn = "get_class_frequency" => out.ret[k] = n
                /\ call.fn = "get_inverse_class_frequency"
                     => IsQuotient(out.ret[k], total, n)

\* single-label counts [2,2,1] give inverse frequencies [5/2, 5/2, 5]
C10_Witness ==
    /\ pc = "returned" /\ call.fn = "get_inverse_class_frequency"
    /\ ~call.multi_label_training /\ out.recomputed
    /\ [k \in ClassPositions |-> PrimaryCount(call.idx_list, k)] = <<2, 2, 1>>
    /\ out.ret = << <<5, 2>>, <<5, 2>>, <<5, 1>> >>

\* C11: a from-scratch computation fails with the 'Each class should occur at
\* least ones' assertion exactly when some class has no occurrence across
\* idx_list; when every class occurs it succeeds and divides by no zero.
\* (Violated: over an empty idx_list no class occurs, and the assertion passes
\* because the frame has no column to test.)
C11_ZeroOccurrenceAssertion ==
    (pc = "returned" /\ ~out.checked)
    => /\ (out.err = "ZeroOccurrence") <=> ~EveryClassOccurs(call)
       /\ EveryClassOccurs(call)
            => /\ out.err = "none"
               /\ call.fn # "get_class_frequency"
                    => \A k \in DOMAIN out.ret : out.ret[k][2] > 0

\* C12: the label set is the one the first record declares, in every state;
\* __getitem__ fails with the assertion exactly when an entry of the record's
\* classes_encoded is outside it, and a record it returns has every entry of
\* classes_encoded in it.
C12_LabelSetFixedAndEnforced ==
    /\ class_labels = 0 .. (Len(pickles[records[1]].classes_one_hot) - 1)
    /\ (pc = "returned" /\ call.fn = "__getitem__")
         => LET meta == pickles[records[call.idx + 1]]
                unknown == {k \in DOMAIN meta.classes_encoded :
                               meta.classes_encoded[k] \notin class_labels}
            IN  /\ out.err = (IF unknown = {} THEN "none" ELSE "UnknownLabel")
                /\ out.err = "none"
                     => /\ out.ret.record_name = records[call.idx + 1]
                        /\ out.ret.classes_one_hot = meta.classes_one_hot
                        /\ out.ret.first_class_encoded \in class_labels
    /\ (pc = "returned" /\ call.fn # "__getitem__" /\ out.err = "none"
           /\ out.recomputed)
         => \A i \in DOMAIN call.idx_list :
               \A k \in DOMAIN MetaAt(call.idx_list, i).classes_encoded :
                  MetaAt(call.idx_list, i).classes_encoded[k] \in class_labels

\* the record whose second label is unknown was asked for, after files were
\* written, and the assertion failed
C12_Witness ==
    /\ pc = "returned" /\ call.fn = "__getitem__" /\ out.err = "UnknownLabel"
    /\ pickles[records[call.idx + 1]].classes_encoded[1] \in class_labels
    /\ files # EmptyFiles

\* C13: a dataset holds exactly the files of its directory whose names end
\* with '.pk', in sorted order; its length is their number and the record name
\* __getitem__(i) returns is the i-th of them.
\* (Violated: line 37 keeps every file whose name contains '.pk'.)
C13_RetainsFilesEndingInPk ==
    /\ records = SelectSeq(sorted(listdir), EndsWithPk)
    /\ (pc = "returned" /\ call.fn = "__getitem__" /\ out.err = "none")
         => out.ret.record_name = SelectSeq(sorted(listdir), EndsWithPk)[call.idx + 1]

\* the mode a file of the log directory is named after
ModeOfFile(n) == IF n[1] = "Record" THEN n[3] ELSE n[4]

FilesOfMode(mode) == {n \in DOMAIN files : ModeOfFile(n) = mode}

\* the files a call changes or creates
ChangedFiles(res) ==
    {n \in DOMAIN res.files : n \notin DOMAIN files \/ res.files[n] # files[n]}

\* C18: on a dataset whose input directory does not contain 'test', a call
\* with mode 'test' does what the call with mode 'valid' does: same outcome,
\* same files read and written, and no file is ever named after 'test'. On a
\* directory that contains 'test' the call uses the 'test' cache and manifest.
C18_TestModeIsValidOffTestDirs ==
    /\ ~PathContains(input_dir, "test")
         => /\ FilesOfMode("test") = {}
            /\ pc = "idle"
                 => \A idx_list \in IdxLists, cv \in env.cvs :
                       /\ get_ml_pos_weights(idx_list, "test", cv)
                            = get_ml_pos_weights(idx_list, "valid", cv)
                       /\ \A ml \in BOOLEAN, inverse \in BOOLEAN :
                             get_class_frequency(idx_list, ml, "test", inverse, cv)
                               = get_class_frequency(idx_list, ml, "valid", inverse, cv)
    /\ (PathContains(input_dir, "test") /\ pc = "idle")
         => \A idx_list \in IdxLists, cv \in env.cvs :
               /\ LET res == get_ml_pos_weights(idx_list, "test", cv)
                  IN  /\ res.checked <=> (~cv /\ PosWeightsFile("test") \in DOMAIN files)
                      /\ \A n \in ChangedFiles(res) : ModeOfFile(n) = "test"
                      /\ (res.recomputed /\ ~cv)
                           => PosWeightsFile("test") \in ChangedFiles(res)
               /\ \A ml \in BOOLEAN, inverse \in BOOLEAN :
                     LET res == get_class_frequency(idx_list, ml, "test", inverse, cv)
                     IN  /\ res.checked
                              <=> (~cv /\ ClassFreqsFile(ml, "test") \in DOMAIN files)
                         /\ \A n \in ChangedFiles(res) : ModeOfFile(n) = "test"
                         /\ (res.recomputed /\ ~cv)
                              => ClassFreqsFile(ml, "test") \in ChangedFiles(res)

\* off a test directory, a call with mode 'test' was served from the cache a
\* 'valid' call wrote
C18_Witness ==
    /\ pc = "returned" /\ call.mode = "test" /\ ~PathContains(input_dir, "test")
    /\ out.checked /\ out.err = "none"
    /\ FilesOfMode("valid") # {} /\ FilesOfMode("test") = {}

\* the suffix as the claim derives it from the path relative to the project root
ClaimedSuffix(dir) ==
    LET rel == IF Head(dir) = ProjectRoot THEN Tail(dir) ELSE dir
    IN  IF rel[2] = <<"CinC", "CPSC">> THEN <<"CinC", "CPSC">>
        ELSE rel[2] \o <<Head(rel[3])>>

AliasedMode(dir, mode) ==
    IF mode = "test" /\ ~PathContains(dir, "test") THEN "valid" ELSE mode

\* the names of the files of a (mode, suffix) pair
NamesOf(mode, suffix) ==
    { <<"pos", "weights", "ml", mode>> \o suffix \o <<".p">>,
      <<"class", "freqs", "ml", mode>> \o suffix \o <<".p">>,
      <<"class", "freqs", "sl", mode>> \o suffix \o <<".p">>,
      <<"Record", "names", mode, "pos", "weights">> \o suffix \o <<".txt">>,
      <<"Record", "names", mode, "class", "freqs">> \o suffix \o <<".txt">> }

\* C19: the suffix is the second segment of the path relative to the project
\* root when that is 'CinC_CPSC', and else that segment, '_' and the first
\* token of the third; both statistics use it, so every file a dataset reads
\* or writes is one of its (mode, suffix) pair, and the files of two datasets
\* are the same exactly when their (mode, suffix) pairs are.
C19_SuffixOfInputDir ==
    /\ Suffix = ClaimedSuffix(input_dir)
    /\ \A n \in DOMAIN files :
          \E mode \in {"valid", "test"} :
             n \in NamesOf(AliasedMode(input_dir, mode), ClaimedSuffix(input_dir))
    /\ pc = "returned"
         => /\ CacheFileOf(call)
                 \in NamesOf(AliasedMode(input_dir, call.mode), ClaimedSuffix(input_dir))
            /\ ManifestOf(call)
                 \in NamesOf(AliasedMode(input_dir, call.mode), ClaimedSuffix(input_dir))
            /\ (out.recomputed /\ ~call.cross_valid_active)
                 => {CacheFileOf(call), ManifestOf(call)} \subseteq DOMAIN files
    /\ pc = "idle"
         => \A dir \in InputDirs, m1 \in {"train", "valid", "test"},
               m2 \in {"train", "valid", "test"} :
               LET p1 == <<AliasedMode(input_dir, m1), ClaimedSuffix(input_dir)>>
                   p2 == <<AliasedMode(dir, m2), ClaimedSuffix(dir)>>
               IN  /\ (p1 = p2) <=> (NamesOf(p1[1], p1[2]) = NamesOf(p2[1], p2[2]))
                   /\ (p1 # p2)
                        => (NamesOf(p1[1], p1[2]) \cap NamesOf(p2[1], p2[2]) = {})

\* a dataset given by an absolute path has written the files of 'CinC_CPSC'
C19_Witness ==
    /\ input_dir = AbsoluteTrainDir
    /\ pc = "returned" /\ call.fn = "get_class_frequency" /\ out.recomputed
    /\ call.mode = "test" /\ ~call.cross_valid_active
    /\ <<"class", "freqs", "ml", "valid", "CinC", "CPSC", ".p">> \in DOMAIN files
    /\ <<"Record", "names", "valid", "class", "freqs", "CinC", "CPSC", ".txt">>
         \in DOMAIN files
    /\ <<"pos", "weights", "ml", "valid", "CinC", "CPSC", ".p">> \in DOMAIN files

\* ========================================================================
\* Claims about the de-duplication callback
\* ========================================================================
\* the start events before event i that carry the same configuration (equal
\* dicts in equal insertion order, which is what equal strings mean)
EarlierSame(i) == {j \in 1..(i - 1) : starts[j].config = starts[i].config}

StoppedStarts == {stop_cmds[k].at : k \in DOMAIN stop_cmds}

\* C5: a stop command is issued for a trial start exactly when its
\* configuration string was started before; otherwise the string joins the
\* seen set. So #stops = #starts - #distinct strings started.
C5_StopIffSeenBefore ==
    /\ \A i \in DOMAIN starts : (i \in StoppedStarts) <=> (EarlierSame(i) # {})
    /\ \A k \in DOMAIN stop_cmds :
         /\ stop_cmds[k].at \in DOMAIN starts
         /\ stop_cmds[k].trial = starts[stop_cmds[k].at].trial
         /\ \A m \in DOMAIN stop_cmds : stop_cmds[m].at = stop_cmds[k].at => m = k
    /\ Len(stop_cmds) = Len(starts) - Cardinality({starts[i].config : i \in DOMAIN starts})
    /\ Cardinality(already_seen) = Cardinality({starts[i].config : i \in DOMAIN starts})

\* two trials with one configuration were started (and a third with the same
\* pairs in another order): one stop command, for the second
C5_Witness ==
    /\ Len(starts) = 3 /\ Len(stop_cmds) = 1
    /\ starts[1].trial # starts[2].trial
    /\ starts[1].config = starts[2].config
    /\ starts[3].config # starts[1].config
    /\ Range(starts[3].config) = Range(starts[1].config)
    /\ stop_cmds[1] = [trial |-> starts[2].trial, at |-> 2]

\* C6: the first trial started with a configuration is never stopped by the
\* callback, also when it fails and is restarted.
\* (Violated: the restart finds the trial's own configuration in the seen set.)
C6_FirstTrialNeverStopped ==
    \A k \in DOMAIN stop_cmds :
        LET i == stop_cmds[k].at
            first == CHOOSE j \in 1..i :
                        /\ starts[j].config = starts[i].config
                        /\ EarlierSame(j) = {}
        IN  stop_cmds[k].trial # starts[first].trial

\* ========================================================================
\* Claims about the Trainer
\* ========================================================================
EventsOf(kind) == {i \in DOMAIN trace : trace[i].ev = kind}

PhaseRank(ev) == CASE ev = "train" -> 1 [] ev = "valid" -> 2 [] ev = "sched" -> 3

\* C7: within an epoch every training batch precedes the validation phase,
\* and the scheduler is stepped once per epoch, after the training phase and
\* (with a validation loader) the complete validation phase; it is never
\* stepped when no scheduler is configured.
C7_TrainThenValidThenScheduler ==
    /\ \A i, j \in DOMAIN trace :
         i < j => PhaseRank(trace[i].ev) <= PhaseRank(trace[j].ev)
    /\ Cardinality(EventsOf("sched")) <= 1
    /\ ~HasScheduler => (EventsOf("sched") = {} /\ lr_steps = 0)
    /\ (EventsOf("valid") # {} \/ EventsOf("sched") # {}) => tr_pc # "train"
    /\ (EventsOf("sched") # {} /\ do_validation)
         => Cardinality(EventsOf("valid")) = TheValue(tr_cfg.valid_data_loader)
    /\ ~do_validation => EventsOf("valid") = {}
    /\ tr_pc \in {"return", "epoch_done"}
         => /\ EventsOf("train") # {}
            /\ Cardinality(EventsOf("sched")) = (IF HasScheduler THEN 1 ELSE 0)
            /\ do_validation
                 => Cardinality(EventsOf("valid")) = TheValue(tr_cfg.valid_data_loader)
            /\ lr_steps = (IF HasScheduler THEN epoch ELSE 0)

\* the second epoch of a run with validation and a scheduler has ended
C7_Witness ==
    /\ tr_pc = "epoch_done" /\ epoch = 2
    /\ HasScheduler /\ do_validation /\ lr_steps = 2
    /\ Cardinality(EventsOf("train")) >= 2
    /\ Cardinality(EventsOf("valid")) >= 2
    /\ trace[Len(trace)].ev = "sched"

\* C8: the training phase of an epoch processes exactly len_epoch batches in
\* iteration-bounded training and exactly len(data_loader) batches in
\* epoch-based training.
\* (Violated: the loop breaks after the batch with batch_idx = len_epoch, the
\* (len_epoch + 1)-th.)
C8_ExactlyLenEpochBatches ==
    tr_pc \in {"valid", "scheduler", "return", "epoch_done", "finished"}
    => Cardinality(EventsOf("train"))
         = (IF IterationBased THEN TheValue(tr_cfg.len_epoch) ELSE tr_cfg.n_batches)

\* ========================================================================
\* Claims about the residual block
\* ========================================================================
IsPrefix(s, t) == Len(s) <= Len(t) /\ \A i \in DOMAIN s : s[i] = t[i]

\* C14: with stride 1 and equal channel counts the time length after each of
\* the three padded convolutions, and of the block's output, is the input's,
\* for odd and even kernel sizes.
C14_StrideOneKeepsLength ==
    (blk.stride = 1 /\ blk.in_channels = blk.out_channels /\ blk_pc # "constructed")
    => /\ blk_out.len = blk_x
       /\ blk_pc # "RuntimeError"

\* a block with an even mid kernel and an odd last kernel returned
C14_Witness ==
    /\ blk_pc = "returned" /\ blk.stride = 1 /\ blk.in_channels = blk.out_channels
    /\ blk.mid_kernels_size = 2 /\ blk.last_kernel_size = 3
    /\ blk_x = 3 /\ blk_out.len = 3
    /\ Len(SelectSeq(blk_out.ops, LAMBDA op : op \in {"conv1", "conv2", "conv3"})) = 3

\* C15: with stride 2 the main path's time length after conv3 is the input's
\* divided by two and rounded up, for even and odd lengths and kernel sizes.
C15_StrideTwoHalvesRoundingUp ==
    (blk.stride = 2 /\ "conv3" \in Range(blk_out.ops))
    => blk_out.len = (IF blk_x % 2 = 0 THEN blk_x \div 2 ELSE (blk_x + 1) \div 2)

\* an input of odd length went through a conv3 with an even kernel
C15_Witness ==
    /\ blk.stride = 2 /\ "conv3" \in Range(blk_out.ops)
    /\ blk_x = 3 /\ blk.last_kernel_size = 2 /\ blk_out.len = 2

\* the operations of a complete forward pass, in order
ExpectedOps ==
    <<"conv1">> \o (IF blk.norm_pos = "all" THEN <<"norm1">> ELSE <<>>)
    \o <<"lrelu1", "conv2">> \o (IF blk.norm_pos = "all" THEN <<"norm2">> ELSE <<>>)
    \o <<"lrelu2", "conv3">>
    \o (IF blk.norm_pos \in {"all", "last"} THEN <<"norm3">> ELSE <<>>)
    \o (IF blk.skips_active THEN <<"add">> ELSE <<>>)
    \o <<"lrelu3", "dropout">>

\* C16: the tensor a forward pass works on is made by conv1, [norm],
\* leaky-ReLU, conv2, [norm], leaky-ReLU, conv3, [norm], [residual addition],
\* leaky-ReLU, dropout, in this order: the last leaky-ReLU and the dropout act
\* on the sum, and placement 'last' normalizes after conv3 only.
C16_ForwardOrder ==
    /\ IsPrefix(blk_out.ops, ExpectedOps)
    /\ blk_pc = "returned" => blk_out.ops = ExpectedOps
    /\ (blk.skips_active /\ "lrelu3" \in Range(blk_out.ops))
         => \E i, j \in DOMAIN blk_out.ops :
               i < j /\ blk_out.ops[i] = "add" /\ blk_out.ops[j] = "lrelu3"
    /\ blk.norm_pos = "last"
         => Range(blk_out.ops) \cap {"norm1", "norm2"} = {}

\* a block with placement 'last' and a downsampled residual returned
C16_Witness ==
    /\ blk_pc = "returned" /\ blk.norm_pos = "last" /\ blk.skips_active
    /\ blk_residual.ops = <<"x", "downsample">>
    /\ blk_out.ops = <<"conv1", "lrelu1", "conv2", "lrelu2", "conv3", "norm3",
                       "add", "lrelu3", "dropout">>

\* ========================================================================
\* Claims about prepare_device
\* ========================================================================
Min(a, b) == IF a <= b THEN a ELSE b

\* C17: asked for r GPUs on a machine with a, prepare_device returns the device
\* indices 0 .. min(r, a) - 1, the CPU exactly when there is none, and prints
\* one warning when r > a (also when a = 0) and none otherwise.
C17_PrepareDevice ==
    dev_pc = "returned"
    => /\ Len(dev_ret.list_ids) = Min(dev_arg, n_gpu)
       /\ \A i \in DOMAIN dev_ret.list_ids : dev_ret.list_ids[i] = i - 1
       /\ dev_ret.device \in {"cpu", "cuda:0"}
       /\ (dev_ret.device = "cpu") <=> (dev_ret.list_ids = <<>>)
       /\ Len(warnings) = (IF dev_arg > n_gpu THEN 1 ELSE 0)

\* 2 GPUs asked for, none available: CPU, no index, one warning
C17_Witness ==
    /\ dev_pc = "returned" /\ dev_arg = 2 /\ n_gpu = 0
    /\ dev_ret = [device |-> "cpu", list_ids |-> <<>>]
    /\ Len(warnings) = 1

\* ========================================================================
\* Claims about train_model
\* ========================================================================
DataLoaderEvents ==
    {"data_loader = train_dl", "data_loader = init_obj(cross_valid=True)",
     "data_loader = init_obj()"}

\* C20: a call with use_tune and cv_active both true fails with the assertion
\* before anything is constructed or written; a call that passes sets its
\* data loaders up once, from the pair passed in when use_tune, from the fold
\* split when cv_active, and from a new loader otherwise.
C20_TuneAndCrossValidExclusive ==
    /\ (tm_args.use_tune /\ tm_args.cv_active)
         => /\ tm_pc \in {"called", "AssertionError"}
            /\ tm_events = <<>>
    /\ tm_pc = "AssertionError" => (tm_args.use_tune /\ tm_args.cv_active)
    /\ LET loaders == SelectSeq(tm_events, LAMBDA ev : ev \in DataLoaderEvents)
       IN  /\ Len(loaders) <= 1
           /\ tm_pc \in {"model", "trainer", "train", "save", "returned"}
                => loaders = <<IF tm_args.use_tune THEN "data_loader = train_dl"
                               ELSE IF tm_args.cv_active
                               THEN "data_loader = init_obj(cross_valid=True)"
                               ELSE "data_loader = init_obj()">>
           /\ \A i \in DOMAIN tm_events :
                 tm_events[i] \in {"model", "model: tune_config", "trainer"}
                   => \E j \in 1..(i - 1) : tm_events[j] \in DataLoaderEvents

\* a call with both flags set has failed
C20_Witness ==
    /\ tm_pc = "AssertionError" /\ tm_args.use_tune /\ tm_args.cv_active
    /\ tm_events = <<>>

\* ========================================================================
\* Claims about the log and the operations of an epoch
\* ========================================================================
\* the batches a phase of the current epoch has processed
BatchesOf(phase) ==
    {<<phase, epoch, trace[i].batch_idx>> : i \in EventsOf(phase)}

ValKeys == {"val_loss"} \cup (IF tr_cfg.metric_ftns = <<>> THEN {} ELSE {"val_accuracy"})

TrainKeys == {"loss"} \cup Range(tr_cfg.metric_ftns)

ValidOf(key) == IF key = "val_loss" THEN "loss" ELSE "accuracy"

\* C25: the log _train_epoch returns holds every tracked training quantity
\* under its own name and, with a validation loader, every tracked validation
\* quantity under 'val_' + name; without one it holds no 'val_' key and no
\* validation batch has run; every value stems from the batches of the
\* current epoch only.
C25_EpochLog ==
    tr_pc \in {"return", "epoch_done"}
    => /\ DOMAIN log = TrainKeys \cup (IF do_validation THEN ValKeys ELSE {})
       /\ \A k \in TrainKeys : log[k] = BatchesOf("train")
       /\ do_validation => \A k \in ValKeys : log[k] = BatchesOf("valid")
       /\ ~do_validation => EventsOf("valid") = {}

\* the log of the second epoch of a run with a metric and a validation loader
C25_Witness ==
    /\ tr_pc = "epoch_done"
    /\ epoch = 2
    /\ do_validation
    /\ "val_accuracy" \in DOMAIN log
    /\ log["val_accuracy"] # {}
    /\ log["loss"] # log["val_loss"]

IsOp(i, name, phase, b) ==
    /\ i \in DOMAIN ops
    /\ ops[i].op = name
    /\ ops[i].phase = phase
    /\ ops[i].batch_idx = b

C30_TrainStepsIncrease ==
    \A i, j \in DOMAIN steps : i < j => steps[i] < steps[j]

\* ========================================================================
\* Claims about the residual of a block
\* ========================================================================
\* C27: with skips active, for stride 1 or 2, every down_sample and any
\* channel counts, the residual as projected and padded is as long as the
\* output of the main path, for every input length L >= 1.
C27_ResidualFitsMainPath ==
    (blk.skips_active /\ blk_pc \in {"lrelu3", "dropout", "returned", "RuntimeError"})
    => blk_residual.len = blk_out.len

\* ========================================================================
\* Claims about the life of the manifests
\* ========================================================================
IsManifest(n) == n[1] = "Record"

KindOfFile(n) == IF IsManifest(n) THEN <<n[4], n[5]>> ELSE <<n[1], n[2]>>

\* the cache files, among fs, that the manifest n accompanies
CachesOf(n, fs) ==
    {c \in DOMAIN fs : /\ ~IsManifest(c)
                        /\ KindOfFile(c) = KindOfFile(n)
                        /\ ModeOfFile(c) = ModeOfFile(n)}

\* C24: the manifest of a (mode, statistic-kind) pair is created once,
\* together with the cache file it accompanies, and is never rewritten; while
\* it exists it lists the names of the records the cached statistic was
\* computed over.
C24_ManifestWrittenOnce ==
    [][\A n \in DOMAIN files' :
          IsManifest(n)
          => /\ n \in DOMAIN files => files'[n] = files[n]
             /\ n \notin DOMAIN files
                  => \E c \in CachesOf(n, files') : c \notin DOMAIN files
             /\ \A c \in CachesOf(n, files') :
                    Range(files'[n]) = Range(origin'[c].names)]_vars

\* C29: a from-scratch computation that fails, by the zero-occurrence
\* assertion or by the unknown-label assertion of a record, leaves the log
\* directory as it was: neither manifest nor cache is created or modified.
C29_FailedComputationLeavesFiles ==
    [][(/\ pc' = "returned"
        /\ call'.fn # "__getitem__"
        /\ ~call'.cross_valid_active
        /\ out'.err \in {"ZeroOccurrence", "UnknownLabel"})
       => files' = files]_vars

\* ========================================================================
\* Claims about the entry point
\* ========================================================================
\* the seed the claim names: the SEED key if present, else the --seed flag
ClaimedSeed ==
    IF ep_args.config_SEED # None THEN TheValue(ep_args.config_SEED) ELSE ep_args.seed

\* C21: the effective seed is the configuration's SEED key when present and
\* otherwise the value of --seed; _set_seed is called with it, once, and
\* before hyper_study or train_model is dispatched to.
C21_EffectiveSeed ==
    /\ ep_pc \in {"resolved", "seeded", "dispatched"} => global_SEED = ClaimedSeed
    /\ ep_pc \in {"seeded", "dispatched"} => rng = _set_seed(ClaimedSeed)
    /\ ep_pc \in {"start", "parsed", "resolved"} => ep_events = <<>> /\ rng = Unseeded
    /\ ep_pc = "seeded" => ep_events = <<"_set_seed">>
    /\ ep_pc = "dispatched"
         => ep_events = <<"_set_seed",
                          IF ep_args.use_tune THEN "hyper_study" ELSE "train_model">>

\* a run whose configuration sets SEED to another value than --seed has
\* dispatched to the tuning study
C21_Witness ==
    /\ ep_pc = "dispatched"
    /\ ep_args.use_tune
    /\ ep_args.config_SEED # None
    /\ TheValue(ep_args.config_SEED) # ep_args.seed
    /\ rng.torch = TheValue(ep_args.config_SEED)

\* ========================================================================
\* Claims about the summarizer
\* ========================================================================
IsNumber(cell) == cell \in Int \X Int

\* the number of columns the claim gives for each setting of the flags
ClaimedColumns(cfg) ==
    IF cfg.include_weighted_avg THEN 17
    ELSE IF cfg.include_at_least_weighted_F1 THEN 15 ELSE 14

\* the table has its eleven rows, ten fold rows 1..10 and the mean row, each
\* as long as the table has columns
SummaryShape ==
    sum_pc \in {"mean", "rounded", "done"}
      => /\ Len(df_results) = 11
         /\ Len(ResultColumns(sum_cfg)) = ClaimedColumns(sum_cfg)
         /\ \A r \in 1..11 : Len(df_results[r].values) = Len(ResultColumns(sum_cfg))
         /\ \A r \in 1..10 : df_results[r].values[1] = <<r, 1>>

\* C22: the assembled table has exactly 11 rows, the Fold cells of the ten
\* fold rows are 1..10 in order, the Fold cell of the mean row is a label and
\* not a number, and every row has as many values as the table has columns
\* (17, 15 or 14).
C22_SummaryTable ==
    /\ SummaryShape
    /\ sum_pc \in {"mean", "rounded", "done"} => ~IsNumber(df_results[11].values[1])

\* ========================================================================
\* Claims about inf_loop
\* ========================================================================
\* the items yielded so far are the loader's items 0, 1, .., n-1, 0, 1, ..
CyclesThroughLoader ==
    /\ \A k \in DOMAIN loop_items : loop_items[k] = (k - 1) % loop_n
    /\ loop_pc # "StopIteration"

\* C23: over a loader of n >= 1 items the k-th item of inf_loop (k = 0, 1, ..)
\* is the loader's item k mod n, the generator never ends, and every request
\* for a next item is answered.
C23_InfLoop ==
    /\ []CyclesThroughLoader
    /\ \A k \in 0..MaxRequests :
          (loop_pc = "requested" /\ Len(loop_items) = k)
             ~> (loop_pc = "suspended" /\ Len(loop_items) = k + 1)

\* the generator has gone through the loader more than once
C23_Witness ==
    /\ loop_n > 1
    /\ Len(loop_items) > loop_n
    /\ loop_items[Len(loop_items)] = 0
    /\ loop_pc = "suspended"

\* ========================================================================
\* Claims about concurrent workers
\* ========================================================================
\* C28: when two or more workers ask for the same statistic of the same key
\* and idx_list at the same time, without cross-validation and with no cache
\* at first, no worker fails with a 'Data Split Error' or in creating the log
\* directory, none reads a manifest or cache file that is partly written, and
\* every worker that is done has returned the statistic.
C28_ConcurrentWorkersAllReturn ==
    \A w \in workers :
        /\ w_pc[w] \notin {"DataSplitError", "FileExistsError", "EOFError"}
        /\ w_pc[w] = "assert_split" => w_read[w] = WorkerNames
        /\ w_pc[w] = "load" => cache = "complete"

====
